---- MODULE Spec2Model ----
(***************************************************************************)
(* A model of alpacalert's core: the three-valued State algebra            *)
(* (models.py), the generic aggregators (generic.py) and the instrumentor  *)
(* registry (instrumentor.py).                                             *)
(*                                                                         *)
(* Three specifications share the module:                                  *)
(*   SpecAlgebra     State.__and__/__or__ and the status() of SystemAll,   *)
(*                   SystemAny and of a scanner whose status is status_all *)
(*   SpecRegistry    InstrumentorRegistry.register / register_many /       *)
(*                   extend                                                *)
(*   SpecInstrument  the same, followed by InstrumentorRegistry.instrument *)
(*                   and InstrumentorComposite.instrument                  *)
(***************************************************************************)
EXTENDS Integers, Sequences, FiniteSets, TLC

VARIABLES
    scanners,       \* generic.py: the `scanners` of the aggregator under evaluation
    ret,            \* outcome of the last State operator / status() call
    instrumentors,  \* instrumentor.py: InstrumentorRegistry.instrumentors, per registry
    heap,           \* the InstrumentorComposite objects allocated so far
    registered,     \* per registry and kind, the arguments of the register() calls so far
    last,           \* the last registry operation: its arguments, the state before it, its outcome
    api,            \* k8s.py: what the cluster holds, i.e. what K8s.kr8s lists
    cache,          \* k8s.py: K8s._cache_get_all
    listed,         \* the (kind, namespace) of every kr8s list request made so far
    answer,         \* the last call on the K8s facade: its arguments, the state before it, its outcome
    roots,          \* transform.py: the `scanners` handed to find_scanners / find_path
    found,          \* the last find_scanners / find_path call: its arguments and outcome
    stack,          \* the scanners constructed so far that are not yet part of another
    shown,          \* the last VisualiserConsole.visualise call: its arguments and outcome
    built           \* the last children() call on a Kubernetes scanner: its arguments and outcome

coreVars == <<scanners, ret, instrumentors, heap, registered, last>>
k8sVars == <<api, cache, listed, answer>>
transformVars == <<roots, found>>
consoleVars == <<stack, shown>>
vars == <<coreVars, k8sVars, transformVars, consoleVars, built>>

\* what the State, aggregator and registry operations leave alone
outsideCore == <<k8sVars, transformVars, consoleVars, built>>
\* what the K8s facade leaves alone
outsideK8s == <<coreVars, transformVars, consoleVars, built>>
\* what find_scanners and find_path leave alone
outsideTransform == <<coreVars, k8sVars, consoleVars, built>>
\* what the console visualiser leaves alone
outsideConsole == <<coreVars, k8sVars, transformVars, built>>
\* what the Kubernetes scanners and the registry they are given leave alone
outsideCluster == <<scanners, ret, last, answer, transformVars, consoleVars>>

(***************************************************************************)
(* Bounds                                                                  *)
(***************************************************************************)
MaxChildren == 3        \* children of one aggregator
MaxRegistrations == 4   \* register() calls in one run, those of register_many and extend included
MaxSetup == 3           \* the same, in the runs that go on to instrument
MaxYield == 2           \* scanners one user instrumentor returns
MaxCalls == 2           \* calls made on one K8s facade
MaxRoots == 2           \* scanners handed to find_scanners / find_path
MaxKids == 1            \* children of one of them
MaxPath == 3            \* segments of a path
MaxComposites == 1      \* InstrumentorComposite objects made while a cluster's registry is set up
MaxConditions == 2      \* conditions in the status of one pod
MaxNodes == 4           \* scanners of the tree handed to the visualiser

(***************************************************************************)
(* models.py: State                                                        *)
(***************************************************************************)
PASSING == "passing"
FAILING == "failing"
UNKNOWN == "unknown"

State == {PASSING, FAILING, UNKNOWN}

\* State.__and__ whose UNKNOWN branch answers PASSING for UNKNOWN & PASSING
AndDropsUnknown(self, other) ==
    CASE self = PASSING -> other
      [] self = FAILING -> FAILING
      [] self = UNKNOWN ->
            CASE other = PASSING -> PASSING
              [] other = FAILING -> FAILING
              [] other = UNKNOWN -> UNKNOWN

\* State.__and__ whose UNKNOWN branch returns UNKNOWN whatever `other` is
AndUnknownAbsorbs(self, other) ==
    CASE self = PASSING -> other
      [] self = FAILING -> FAILING
      [] self = UNKNOWN -> UNKNOWN

\* State.__and__: the least favourable state
And(self, other) ==
    CASE self = PASSING -> other
      [] self = FAILING -> FAILING
      [] self = UNKNOWN ->
            CASE other = PASSING -> UNKNOWN
              [] other = FAILING -> FAILING
              [] other = UNKNOWN -> UNKNOWN

\* State.__or__: the most favourable state
Or(self, other) ==
    CASE self = PASSING -> PASSING
      [] self = FAILING -> other
      [] self = UNKNOWN ->
            CASE other = PASSING -> PASSING
              [] other = FAILING -> UNKNOWN
              [] other = UNKNOWN -> UNKNOWN

(***************************************************************************)
(* generic.py: the aggregators                                             *)
(***************************************************************************)
\* A child scanner is given by what its status() does: it returns a Status
\* with one of the three states, or it raises.
RAISES == "raises"
Child == State \cup {RAISES}

NoException == "none"
ChildError == "ChildError"      \* the exception a raising child raises
TypeError == "TypeError"        \* reduce() of an empty sequence without initial value
ScannerError == "ScannerError"  \* generic.py: class ScannerError

\* functools.reduce(operator.and_, states) without an initial value (left fold)
RECURSIVE ReduceAnd(_)
ReduceAnd(states) ==
    IF Len(states) = 1 THEN states[1]
    ELSE And(ReduceAnd(SubSeq(states, 1, Len(states) - 1)), states[Len(states)])

\* functools.reduce(operator.or_, states) without an initial value (left fold)
RECURSIVE ReduceOr(_)
ReduceOr(states) ==
    IF Len(states) = 1 THEN states[1]
    ELSE Or(ReduceOr(SubSeq(states, 1, Len(states) - 1)), states[Len(states)])

\* Index of the first child whose status() raises, 0 when none does
FirstRaising(children) ==
    IF \E i \in 1..Len(children) : children[i] = RAISES
    THEN CHOOSE i \in 1..Len(children) :
            /\ children[i] = RAISES
            /\ \A j \in 1..(i - 1) : children[j] # RAISES
    ELSE 0

Returned(op, args, state) ==
    [op |-> op, args |-> args, outcome |-> "return", state |-> state,
     messages |-> <<>>, exc |-> NoException, cause |-> NoException,
     evaluated |-> Len(args)]

Raised(op, args, exc, cause, evaluated) ==
    [op |-> op, args |-> args, outcome |-> "raise", state |-> "none",
     messages |-> <<>>, exc |-> exc, cause |-> cause, evaluated |-> evaluated]

NoCall ==
    [op |-> "none", args |-> <<>>, outcome |-> "none", state |-> "none",
     messages |-> <<>>, exc |-> NoException, cause |-> NoException,
     evaluated |-> 0]

\* `[sensor.status() for sensor in ...]` followed by reduce(): the list is
\* built first and stops at the first child that raises; reduce() of an
\* empty list raises TypeError.
Aggregate(op, children, folded) ==
    LET r == FirstRaising(children) IN
    IF r # 0 THEN Raised(op, children, ChildError, NoException, r)
    ELSE IF Len(children) = 0 THEN Raised(op, children, TypeError, NoException, 0)
    ELSE Returned(op, children, folded)

\* SystemAll.status()
SystemAllStatus(children) ==
    Aggregate("SystemAll", children,
              IF Len(children) > 0 /\ FirstRaising(children) = 0
              THEN ReduceAnd(children) ELSE "none")

\* SystemAny.status()
SystemAnyStatus(children) ==
    Aggregate("SystemAny", children,
              IF Len(children) > 0 /\ FirstRaising(children) = 0
              THEN ReduceOr(children) ELSE "none")

\* status_all(self) whose except branch reports UNKNOWN instead of raising
StatusAllSwallows(children) ==
    LET r == Aggregate("status_all", children,
                       IF Len(children) > 0 /\ FirstRaising(children) = 0
                       THEN ReduceAnd(children) ELSE "none") IN
    IF r.outcome = "raise"
    THEN Returned("status_all", children, UNKNOWN)
    ELSE r

\* status_all(self): as SystemAll.status() over self.children(), with every
\* exception wrapped: raise ScannerError(...) from e
StatusAllOf(children) ==
    LET r == Aggregate("status_all", children,
                       IF Len(children) > 0 /\ FirstRaising(children) = 0
                       THEN ReduceAnd(children) ELSE "none") IN
    IF r.outcome = "raise"
    THEN Raised("status_all", children, ScannerError, r.exc, r.evaluated)
    ELSE r

(***************************************************************************)
(* SpecAlgebra                                                             *)
(***************************************************************************)
RECURSIVE SeqsUpTo(_, _)
SeqsUpTo(S, n) ==
    IF n = 0 THEN {<<>>}
    ELSE LET shorter == SeqsUpTo(S, n - 1) IN
         shorter \cup {Append(s, x) : s \in shorter, x \in S}

RegistryIdle ==
    /\ instrumentors = <<>>
    /\ heap = <<>>
    /\ registered = <<>>
    /\ last = <<>>

K8sIdle ==
    /\ api = <<>>
    /\ cache = <<>>
    /\ listed = <<>>
    /\ answer = <<>>

TransformIdle ==
    /\ roots = <<>>
    /\ found = <<>>

CoreIdle ==
    /\ scanners = <<>>
    /\ ret = NoCall
    /\ RegistryIdle

ConsoleIdle ==
    /\ stack = <<>>
    /\ shown = <<>>

ClusterIdle == built = <<>>

OutsideCoreIdle == K8sIdle /\ TransformIdle /\ ConsoleIdle /\ ClusterIdle

OutsideK8sIdle == CoreIdle /\ TransformIdle /\ ConsoleIdle /\ ClusterIdle

OutsideTransformIdle == CoreIdle /\ K8sIdle /\ ConsoleIdle /\ ClusterIdle

OutsideConsoleIdle == CoreIdle /\ K8sIdle /\ TransformIdle /\ ClusterIdle

OutsideClusterIdle ==
    /\ scanners = <<>>
    /\ ret = NoCall
    /\ last = <<>>
    /\ answer = <<>>
    /\ TransformIdle
    /\ ConsoleIdle

InitAlgebra ==
    /\ scanners \in SeqsUpTo(Child, MaxChildren)
    /\ ret = NoCall
    /\ RegistryIdle
    /\ OutsideCoreIdle

\* a & b
StateAnd ==
    \E a \in State, b \in State :
        /\ ret' = Returned("__and__", <<a, b>>, And(a, b))
        /\ UNCHANGED <<scanners, instrumentors, heap, registered, last, outsideCore>>

\* a | b
StateOr ==
    \E a \in State, b \in State :
        /\ ret' = Returned("__or__", <<a, b>>, Or(a, b))
        /\ UNCHANGED <<scanners, instrumentors, heap, registered, last, outsideCore>>

\* SystemAll(name, scanners).status()
CallSystemAll ==
    /\ ret' = SystemAllStatus(scanners)
    /\ UNCHANGED <<scanners, instrumentors, heap, registered, last, outsideCore>>

\* SystemAny(name, scanners).status()
CallSystemAny ==
    /\ ret' = SystemAnyStatus(scanners)
    /\ UNCHANGED <<scanners, instrumentors, heap, registered, last, outsideCore>>

\* status() of a scanner declared with `status = status_all`
CallStatusAll ==
    /\ ret' = StatusAllOf(scanners)
    /\ UNCHANGED <<scanners, instrumentors, heap, registered, last, outsideCore>>

NextAlgebra ==
    \/ StateAnd
    \/ StateOr
    \/ CallSystemAll
    \/ CallSystemAny
    \/ CallStatusAll

SpecAlgebra == InitAlgebra /\ [][NextAlgebra]_vars

(***************************************************************************)
(* Claims about the State algebra and the aggregators (SpecAlgebra)        *)
(***************************************************************************)
Aggregators == {"SystemAll", "SystemAny", "status_all"}

\* The truth tables as the specification words them
LeastFavourable(a, b) ==
    IF a = FAILING \/ b = FAILING THEN FAILING
    ELSE IF a = UNKNOWN \/ b = UNKNOWN THEN UNKNOWN
    ELSE PASSING

MostFavourable(a, b) ==
    IF a = PASSING \/ b = PASSING THEN PASSING
    ELSE IF a = UNKNOWN \/ b = UNKNOWN THEN UNKNOWN
    ELSE FAILING

\* C1: a AND b is FAILING if either is FAILING, otherwise UNKNOWN if either
\* is UNKNOWN, otherwise PASSING; a OR b is PASSING if either is PASSING,
\* otherwise UNKNOWN if either is UNKNOWN, otherwise FAILING; for every pair
\* of states, in both argument orders.
C1_TruthTables ==
    /\ ret.op = "__and__" =>
            /\ ret.outcome = "return"
            /\ ret.state = LeastFavourable(ret.args[1], ret.args[2])
            /\ And(ret.args[2], ret.args[1]) = LeastFavourable(ret.args[1], ret.args[2])
    /\ ret.op = "__or__" =>
            /\ ret.outcome = "return"
            /\ ret.state = MostFavourable(ret.args[1], ret.args[2])
            /\ Or(ret.args[2], ret.args[1]) = MostFavourable(ret.args[1], ret.args[2])

C1_Witness ==
    /\ ret.op = "__and__"
    /\ ret.args = <<UNKNOWN, PASSING>>
    /\ ret.state = UNKNOWN

Permuted(s, p) == [i \in 1..Len(s) |-> s[p[i]]]

\* C2: AND and OR are commutative and associative, and the state returned
\* by SystemAll.status() and by SystemAny.status() over a non-empty list of
\* children is the same for every permutation of the children.
C2_OrderIndependent ==
    /\ ret.op = "__and__" => ret.state = And(ret.args[2], ret.args[1])
    /\ ret.op = "__or__" => ret.state = Or(ret.args[2], ret.args[1])
    /\ (Len(scanners) = 3 /\ FirstRaising(scanners) = 0) =>
            /\ And(And(scanners[1], scanners[2]), scanners[3])
                 = And(scanners[1], And(scanners[2], scanners[3]))
            /\ Or(Or(scanners[1], scanners[2]), scanners[3])
                 = Or(scanners[1], Or(scanners[2], scanners[3]))
    /\ (ret.op = "SystemAll" /\ ret.outcome = "return") =>
            \A p \in Permutations(1..Len(ret.args)) :
                /\ SystemAllStatus(Permuted(ret.args, p)).outcome = "return"
                /\ SystemAllStatus(Permuted(ret.args, p)).state = ret.state
    /\ (ret.op = "SystemAny" /\ ret.outcome = "return") =>
            \A p \in Permutations(1..Len(ret.args)) :
                /\ SystemAnyStatus(Permuted(ret.args, p)).outcome = "return"
                /\ SystemAnyStatus(Permuted(ret.args, p)).state = ret.state

C2_Witness ==
    /\ ret.op = "SystemAll"
    /\ ret.outcome = "return"
    /\ ret.args = <<UNKNOWN, FAILING, PASSING>>
    /\ ret.state = FAILING

\* C3: status() of an AllOf aggregator (SystemAll, or a scanner using
\* status_all) with no children returns PASSING, status() of SystemAny with
\* no children returns FAILING, and neither raises.
C3_EmptyReducesToIdentity ==
    /\ (ret.op \in {"SystemAll", "status_all"} /\ ret.args = <<>>) =>
            (ret.outcome = "return" /\ ret.state = PASSING)
    /\ (ret.op = "SystemAny" /\ ret.args = <<>>) =>
            (ret.outcome = "return" /\ ret.state = FAILING)

\* The children with every raising child counted as UNKNOWN
RaisingAsUnknown(children) ==
    [i \in 1..Len(children) |-> IF children[i] = RAISES THEN UNKNOWN ELSE children[i]]

\* C4 as stated: when status() of one child raises, the aggregator's
\* status() does not raise; the child is counted as UNKNOWN with an ERROR
\* log and all remaining siblings are still evaluated and folded in.
C4_ChildFailureContained ==
    (ret.op \in Aggregators /\ FirstRaising(ret.args) # 0) =>
        /\ ret.outcome = "return"
        /\ ret.evaluated = Len(ret.args)
        /\ ret.messages # <<>>
        /\ ret.state = IF ret.op = "SystemAny"
                       THEN ReduceOr(RaisingAsUnknown(ret.args))
                       ELSE ReduceAnd(RaisingAsUnknown(ret.args))

\* C4 amended: when status() of a child raises, the aggregator's status()
\* raises too and returns no Status: SystemAll and SystemAny let the child's
\* exception through, status_all raises ScannerError with the child's
\* exception as its cause; the children after the first raising one are not
\* evaluated.
C4_ChildFailurePropagates ==
    (ret.op \in Aggregators /\ FirstRaising(ret.args) # 0) =>
        /\ ret.outcome = "raise"
        /\ ret.state = "none"
        /\ ret.evaluated = FirstRaising(ret.args)
        /\ ret.op \in {"SystemAll", "SystemAny"} =>
                (ret.exc = ChildError /\ ret.cause = NoException)
        /\ ret.op = "status_all" =>
                (ret.exc = ScannerError /\ ret.cause = ChildError)

C4_Witness ==
    /\ ret.op = "status_all"
    /\ ret.args = <<PASSING, RAISES, FAILING>>
    /\ ret.outcome = "raise"
    /\ ret.evaluated = 2

(***************************************************************************)
(* instrumentor.py: Kind, Instrumentor, InstrumentorComposite,             *)
(* InstrumentorRegistry                                                    *)
(***************************************************************************)
\* Kind(namespace, name): a frozen dataclass, compared by value
Kind(namespace, name) == [namespace |-> namespace, name |-> name]

kind0 == Kind("alpacalert.example.com", "0")
kind1 == Kind("alpacalert.example.com", "1")
Kinds == {kind0, kind1}
NoKind == Kind("", "")

\* The InstrumentorRegistry objects
Registries == {"r0", "r1"}

\* Object references.  The user's instrumentors are the objects 1, 2, 3; the
\* InstrumentorComposite allocated j-th is the object Address(j) and its
\* fields are heap[j]; the InstrumentorK8s made for the i-th sensor class of
\* InstrumentorK8sRegistry is the object -i.
None == 0
Instrumentors == {1, 2, 3}
Address(j) == Cardinality(Instrumentors) + j
IsComposite(ref) == ref > None /\ ref \notin Instrumentors
IsInstrumentorK8s(ref) == ref < None
CompositeAt(hp, ref) == hp[ref - Cardinality(Instrumentors)]

\* InstrumentorComposite(registry, kind, instrumentors)
InstrumentorComposite(registry, kind, list) ==
    [registry |-> registry, kind |-> kind, instrumentors |-> list]

\* A dict[Kind, Instrumentor] keeps its keys in insertion order: a sequence of items
Item(kind, instrumentor) == [kind |-> kind, instrumentor |-> instrumentor]

Keys(d) == {d[i].kind : i \in 1..Len(d)}

\* d.get(kind)
DictGet(d, kind) ==
    IF kind \in Keys(d)
    THEN d[CHOOSE i \in 1..Len(d) : d[i].kind = kind].instrumentor
    ELSE None

\* d[kind] = instrumentor: a bound key keeps its position, a new key goes last
DictSet(d, kind, instrumentor) ==
    IF kind \in Keys(d)
    THEN [i \in 1..Len(d) |-> IF d[i].kind = kind THEN Item(kind, instrumentor) ELSE d[i]]
    ELSE Append(d, Item(kind, instrumentor))

\* The registries, the composites and the log of register() calls as one value
World == [instrumentors |-> instrumentors, heap |-> heap, registered |-> registered]

Logged(w, self, kind, instrumentor) ==
    [w.registered EXCEPT ![self][kind] = Append(@, instrumentor)]

\* register() appending to the list of the Composite that is bound already
RegisterAppending(w, self, kind, instrumentor) ==
    LET existing == DictGet(w.instrumentors[self], kind) IN
    IF IsComposite(existing)
    THEN [instrumentors |-> w.instrumentors,
          heap |-> [w.heap EXCEPT ![existing - Cardinality(Instrumentors)].instrumentors
                                        = Append(@, instrumentor)],
          registered |-> Logged(w, self, kind, instrumentor)]
    ELSE IF existing # None
    THEN LET hp == Append(w.heap, InstrumentorComposite(self, kind, <<existing, instrumentor>>))
         IN  [instrumentors |-> [w.instrumentors EXCEPT
                                    ![self] = DictSet(@, kind, Address(Len(hp)))],
              heap |-> hp,
              registered |-> Logged(w, self, kind, instrumentor)]
    ELSE [instrumentors |-> [w.instrumentors EXCEPT
                                ![self] = DictSet(@, kind, instrumentor)],
          heap |-> w.heap,
          registered |-> Logged(w, self, kind, instrumentor)]

\* register() without the isinstance branch: always [existing, instrumentor]
RegisterNesting(w, self, kind, instrumentor) ==
    LET existing == DictGet(w.instrumentors[self], kind) IN
    IF existing # None
    THEN LET hp == Append(w.heap, InstrumentorComposite(self, kind, <<existing, instrumentor>>))
         IN  [instrumentors |-> [w.instrumentors EXCEPT
                                    ![self] = DictSet(@, kind, Address(Len(hp)))],
              heap |-> hp,
              registered |-> Logged(w, self, kind, instrumentor)]
    ELSE [instrumentors |-> [w.instrumentors EXCEPT
                                ![self] = DictSet(@, kind, instrumentor)],
          heap |-> w.heap,
          registered |-> Logged(w, self, kind, instrumentor)]

\* InstrumentorRegistry.register(kind, instrumentor)
RegisterIn(w, self, kind, instrumentor) ==
    LET existing == DictGet(w.instrumentors[self], kind) IN
    IF existing # None
    THEN LET n == IF IsComposite(existing)
                  THEN CompositeAt(w.heap, existing).instrumentors \o <<instrumentor>>
                  ELSE <<existing, instrumentor>>
             hp == Append(w.heap, InstrumentorComposite(self, kind, n))
         IN  [instrumentors |-> [w.instrumentors EXCEPT
                                    ![self] = DictSet(@, kind, Address(Len(hp)))],
              heap |-> hp,
              registered |-> Logged(w, self, kind, instrumentor)]
    ELSE [instrumentors |-> [w.instrumentors EXCEPT
                                ![self] = DictSet(@, kind, instrumentor)],
          heap |-> w.heap,
          registered |-> Logged(w, self, kind, instrumentor)]

\* for kind, instrumentor in items: self.register(kind, instrumentor).  (The
\* world left by each register() is bound by a set constructor so that it is
\* evaluated once.)
RECURSIVE RegisterEach(_, _, _)
RegisterEach(w, self, items) ==
    IF items = <<>> THEN w
    ELSE CHOOSE r \in {RegisterEach(next, self, Tail(items)) :
                        next \in {RegisterIn(w, self, Head(items).kind,
                                             Head(items).instrumentor)}} : TRUE

\* InstrumentorRegistry.register_many(registrations)
RegisterManyIn(w, self, registrations) == RegisterEach(w, self, registrations)

\* self.instrumentors[kind] = instrumentor for each item, no register()
RECURSIVE SetEach(_, _)
SetEach(d, items) ==
    IF items = <<>> THEN d
    ELSE SetEach(DictSet(d, Head(items).kind, Head(items).instrumentor), Tail(items))

\* extend() written as self.instrumentors.update(other.instrumentors)
ExtendOverwrites(w, self, other) ==
    [w EXCEPT !.instrumentors[self] = SetEach(@, w.instrumentors[other])]

\* InstrumentorRegistry.extend(other)
ExtendIn(w, self, other) == RegisterEach(w, self, w.instrumentors[other])

(***************************************************************************)
(* Instrumenting                                                           *)
(***************************************************************************)
Params == {"p0"}

\* generic.py: SystemAll(name, scanners)
SystemAll(name, children) ==
    [type |-> "SystemAll", name |-> name, scanners |-> children,
     by |-> None, index |-> 0, registry |-> "none", kind |-> NoKind, params |-> "none"]

\* A scanner built by a user instrumentor: which instrumentor built it, which
\* of its scanners it is, and the registry, kind and parameters it was given
Sensor(by, index, registry, kind, params) ==
    [type |-> "Sensor", name |-> "s", scanners |-> <<>>,
     by |-> by, index |-> index, registry |-> registry, kind |-> kind, params |-> params]

\* The user instrumentors differ in how many scanners they return (as
\* Instrumentor0 and InstrumentorBoth of instrumentor_test.py do)
Yield(instrumentor) == instrumentor % (MaxYield + 1)

InvokedWith(instrumentor, registry, kind, params) ==
    [instrumentor |-> instrumentor, registry |-> registry, kind |-> kind, params |-> params]

\* Instrumentor.instrument(registry, kind, **kwargs) of a user instrumentor:
\* it raises when it is one of `raisers`, else it returns its scanners
UserInstrument(instrumentor, registry, kind, params, raisers) ==
    IF instrumentor \in raisers
    THEN [outcome |-> "raise", scanners |-> <<>>, raisedBy |-> instrumentor,
          calls |-> <<InvokedWith(instrumentor, registry, kind, params)>>]
    ELSE [outcome |-> "return",
          scanners |-> [j \in 1..Yield(instrumentor) |->
                            Sensor(instrumentor, j, registry, kind, params)],
          raisedBy |-> None,
          calls |-> <<InvokedWith(instrumentor, registry, kind, params)>>]

(***************************************************************************)
(* instrumentors/k8s.py: the sensor classes and InstrumentorK8s            *)
(***************************************************************************)
k8skind(kind) == Kind("kubernetes.io", kind)

\* One item of a sensor class's registrations(): (kind, cls)
Registration(kind, cls) == [kind |-> kind, cls |-> cls]

\* SensorCluster.k8s_instrumentors()
k8s_instrumentors ==
    << Registration("Nodes", "SensorNode"),
       Registration("ConfigMap", "SensorConfigmaps"),
       Registration("Secret", "SensorSecrets"),
       Registration("StorageClass", "SensorStorageclass"),
       Registration("PersistentVolumeClaim", "SensorPVCs"),
       Registration("Pod", "SensorPods"),
       Registration("Pod#container", "SensorPods.Container"),
       Registration("Pod#volume", "SensorPods.Volume"),
       Registration("ReplicaSet", "SensorReplicaSets"),
       Registration("Deployment", "SensorDeployments"),
       Registration("DaemonSet", "SensorDaemonset"),
       Registration("StatefulSet", "SensorStatefulsets"),
       Registration("Job", "SensorJob"),
       Registration("CronJob", "SensorCronJob"),
       Registration("Service", "SensorServices"),
       Registration("Ingress", "SensorIngresses"),
       Registration("Ingress#path", "SensorIngresses.Path") >>

\* The default `_sensors` of InstrumentorK8sRegistry.__init__
DefaultSensors ==
    << Registration("Clusters", "SensorCluster"),
       Registration("Nodes", "SensorNode"),
       Registration("ConfigMap", "SensorConfigmaps"),
       Registration("Secret", "SensorSecrets"),
       Registration("StorageClass", "SensorStorageclass"),
       Registration("PersistentVolumeClaim", "SensorPVCs"),
       Registration("Pod", "SensorPods"),
       Registration("Pod#container", "SensorPods.Container"),
       Registration("Pod#volume", "SensorPods.Volume"),
       Registration("ReplicaSet", "SensorReplicaSets"),
       Registration("Deployment", "SensorDeployments"),
       Registration("DaemonSet", "SensorDaemonset"),
       Registration("StatefulSet", "SensorStatefulsets"),
       Registration("CronJob", "SensorCronJob"),
       Registration("Job", "SensorJob"),
       Registration("Service", "SensorServices"),
       Registration("Ingress", "SensorIngresses"),
       Registration("Ingress#path", "SensorIngresses.Path") >>

\* "#" in kind
IsSubKind(kind) == kind \in {"Pod#container", "Pod#volume", "Ingress#path"}

\* A Kubernetes scanner: sensor_cls(registry, k8s, obj)
SensorKubernetes(cls, registry, obj) ==
    [type |-> cls, registry |-> registry, k8s |-> "k8s", obj |-> obj]

\* InstrumentorK8s.instrument handing on the registry that made the
\* instrumentor ("r1", the InstrumentorK8sRegistry) in place of its argument
InstrumentorK8sInstrumentOwn(instrumentor, registry, kind, params, raisers) ==
    IF instrumentor \in raisers
    THEN [outcome |-> "raise", scanners |-> <<>>, raisedBy |-> instrumentor,
          calls |-> <<InvokedWith(instrumentor, registry, kind, params)>>]
    ELSE [outcome |-> "return",
          scanners |-> <<SensorKubernetes(DefaultSensors[-instrumentor].cls, "r1", params)>>,
          raisedBy |-> None,
          calls |-> <<InvokedWith(instrumentor, registry, kind, params)>>]

\* InstrumentorK8s.instrument(registry, kind, **kwargs): one scanner of the
\* instrumentor's sensor class, unless constructing it raises
InstrumentorK8sInstrument(instrumentor, registry, kind, params, raisers) ==
    IF instrumentor \in raisers
    THEN [outcome |-> "raise", scanners |-> <<>>, raisedBy |-> instrumentor,
          calls |-> <<InvokedWith(instrumentor, registry, kind, params)>>]
    ELSE [outcome |-> "return",
          scanners |-> <<SensorKubernetes(DefaultSensors[-instrumentor].cls, registry, params)>>,
          raisedBy |-> None,
          calls |-> <<InvokedWith(instrumentor, registry, kind, params)>>]

\* chain.from_iterable(i.instrument(registry, kind, **kwargs) for i in list):
\* the constituents are invoked in order and the first exception ends the chain
RECURSIVE Chain(_, _, _, _, _, _)
RECURSIVE InstrumentorInstrument(_, _, _, _, _, _)

\* InstrumentorComposite.instrument returning the chained scanners themselves
CompositeInstrumentUnwrapped(hp, composite, registry, kind, params, raisers) ==
    Chain(hp, CompositeAt(hp, composite).instrumentors, registry, kind, params, raisers)

\* InstrumentorComposite.instrument(registry, kind, **kwargs)
CompositeInstrument(hp, composite, registry, kind, params, raisers) ==
    LET chained == Chain(hp, CompositeAt(hp, composite).instrumentors,
                         registry, kind, params, raisers) IN
    IF chained.outcome = "raise" THEN chained
    ELSE [chained EXCEPT
            !.scanners = <<SystemAll(kind.namespace \o "/" \o kind.name, chained.scanners)>>]

\* instrumentor.instrument(registry, kind, **kwargs), whatever the instrumentor is
InstrumentorInstrument(hp, instrumentor, registry, kind, params, raisers) ==
    IF IsComposite(instrumentor)
    THEN CompositeInstrument(hp, instrumentor, registry, kind, params, raisers)
    ELSE IF IsInstrumentorK8s(instrumentor)
    THEN InstrumentorK8sInstrument(instrumentor, registry, kind, params, raisers)
    ELSE UserInstrument(instrumentor, registry, kind, params, raisers)

Chain(hp, list, registry, kind, params, raisers) ==
    IF list = <<>>
    THEN [outcome |-> "return", scanners |-> <<>>, raisedBy |-> None, calls |-> <<>>]
    ELSE LET first == InstrumentorInstrument(hp, Head(list), registry, kind, params, raisers) IN
         IF first.outcome = "raise" THEN first
         ELSE LET rest == Chain(hp, Tail(list), registry, kind, params, raisers) IN
              [outcome |-> rest.outcome,
               scanners |-> IF rest.outcome = "raise" THEN <<>>
                            ELSE first.scanners \o rest.scanners,
               raisedBy |-> rest.raisedBy,
               calls |-> first.calls \o rest.calls]

InstrumentorError == "InstrumentorError"    \* instrumentor.py: class InstrumentorError

Instrumented(r) ==
    [outcome |-> "return", exc |-> NoException, message |-> "", about |-> NoKind,
     cause |-> None, scanners |-> r.scanners, calls |-> r.calls]

\* instrument() answering an unbound kind with no scanners
RegistryInstrumentLenient(w, self, kind, params, raisers) ==
    LET instrumentor == DictGet(w.instrumentors[self], kind) IN
    IF instrumentor # None
    THEN LET r == InstrumentorInstrument(w.heap, instrumentor, self, kind, params, raisers) IN
         IF r.outcome = "raise"
         THEN [outcome |-> "raise", exc |-> InstrumentorError,
               message |-> "failed to instrument", about |-> kind,
               cause |-> r.raisedBy, scanners |-> <<>>, calls |-> r.calls]
         ELSE Instrumented(r)
    ELSE Instrumented([scanners |-> <<>>, calls |-> <<>>])

\* instrument() whose except branch answers with no scanners
RegistryInstrumentSwallows(w, self, kind, params, raisers) ==
    LET instrumentor == DictGet(w.instrumentors[self], kind) IN
    IF instrumentor # None
    THEN LET r == InstrumentorInstrument(w.heap, instrumentor, self, kind, params, raisers) IN
         IF r.outcome = "raise"
         THEN Instrumented([scanners |-> <<>>, calls |-> r.calls])
         ELSE Instrumented(r)
    ELSE [outcome |-> "raise", exc |-> InstrumentorError,
          message |-> "no provider", about |-> kind,
          cause |-> None, scanners |-> <<>>, calls |-> <<>>]

\* InstrumentorRegistry.instrument(kind, **kwargs)
RegistryInstrument(w, self, kind, params, raisers) ==
    LET instrumentor == DictGet(w.instrumentors[self], kind) IN
    IF instrumentor # None
    THEN LET r == InstrumentorInstrument(w.heap, instrumentor, self, kind, params, raisers) IN
         IF r.outcome = "raise"
         THEN [outcome |-> "raise", exc |-> InstrumentorError,
               message |-> "failed to instrument", about |-> kind,
               cause |-> r.raisedBy, scanners |-> <<>>, calls |-> r.calls]
         ELSE Instrumented(r)
    ELSE [outcome |-> "raise", exc |-> InstrumentorError,
          message |-> "no provider", about |-> kind,
          cause |-> None, scanners |-> <<>>, calls |-> <<>>]

(***************************************************************************)
(* SpecRegistry                                                            *)
(***************************************************************************)
NoResult ==
    [outcome |-> "none", exc |-> NoException, message |-> "", about |-> NoKind,
     cause |-> None, scanners |-> <<>>, calls |-> <<>>]

Operation(op, self, other, items, kind, params, raisers, result) ==
    [op |-> op, registry |-> self, other |-> other, items |-> items,
     kind |-> kind, params |-> params, raisers |-> raisers,
     before |-> instrumentors, heapBefore |-> heap, result |-> result]

InitRegistry ==
    /\ scanners = <<>>
    /\ ret = NoCall
    /\ instrumentors = [r \in Registries |-> <<>>]
    /\ heap = <<>>
    /\ registered = [r \in Registries |-> [k \in Kinds |-> <<>>]]
    /\ last = Operation("none", "none", "none", <<>>, NoKind, "none", {}, NoResult)
    /\ OutsideCoreIdle

\* Number of register() calls made so far
RECURSIVE Total(_, _)
Total(log, pairs) ==
    IF pairs = {} THEN 0
    ELSE LET p == CHOOSE q \in pairs : TRUE IN
         Len(log[p[1]][p[2]]) + Total(log, pairs \ {p})

Registrations(w) == Total(w.registered, Registries \X Kinds)

Becomes(w, budget) ==
    /\ Registrations(w) <= budget
    /\ instrumentors' = w.instrumentors
    /\ heap' = w.heap
    /\ registered' = w.registered

\* r.register(kind, instrumentor)
Register(budget) ==
    \E self \in Registries, kind \in Kinds, instrumentor \in Instrumentors :
        /\ Becomes(RegisterIn(World, self, kind, instrumentor), budget)
        /\ last' = Operation("register", self, "none", <<Item(kind, instrumentor)>>,
                             kind, "none", {}, NoResult)
        /\ UNCHANGED <<scanners, ret, outsideCore>>

\* r.register_many(i.registrations()), the instrumentor registering itself
\* for both kinds as InstrumentorBoth does
RegisterMany(budget) ==
    \E self \in Registries, instrumentor \in Instrumentors :
        LET registrations == <<Item(kind0, instrumentor), Item(kind1, instrumentor)>> IN
        /\ Becomes(RegisterManyIn(World, self, registrations), budget)
        /\ last' = Operation("register_many", self, "none", registrations,
                             NoKind, "none", {}, NoResult)
        /\ UNCHANGED <<scanners, ret, outsideCore>>

\* r.extend(other)
Extend(budget) ==
    \E self \in Registries, other \in Registries :
        /\ Becomes(ExtendIn(World, self, other), budget)
        /\ last' = Operation("extend", self, other, instrumentors[other],
                             NoKind, "none", {}, NoResult)
        /\ UNCHANGED <<scanners, ret, outsideCore>>

\* r.instrument(kind, **params), while the instrumentors in `raisers` fail
Instrument ==
    \E self \in Registries, kind \in Kinds, params \in Params,
       raisers \in {{}} \cup {{i} : i \in Instrumentors} :
        /\ last' = Operation("instrument", self, "none", <<>>, kind, params, raisers,
                             RegistryInstrument(World, self, kind, params, raisers))
        /\ UNCHANGED <<scanners, ret, instrumentors, heap, registered, outsideCore>>

NextRegistry ==
    \/ Register(MaxRegistrations)
    \/ RegisterMany(MaxRegistrations)
    \/ Extend(MaxRegistrations)

SpecRegistry == InitRegistry /\ [][NextRegistry]_vars

NextInstrument ==
    \/ Register(MaxSetup)
    \/ RegisterMany(MaxSetup)
    \/ Extend(MaxSetup)
    \/ Instrument

SpecInstrument == InitRegistry /\ [][NextInstrument]_vars

(***************************************************************************)
(* Claims about the registry (SpecRegistry, SpecInstrument)                *)
(***************************************************************************)
KeysInOrder(d) == [i \in 1..Len(d) |-> d[i].kind]

\* The instrumentor list a binding stands for when register() adds to it
AsList(hp, ref) ==
    IF IsComposite(ref) THEN CompositeAt(hp, ref).instrumentors ELSE <<ref>>

\* C5: after register/register_many calls on an initially empty registry,
\* a kind with one registered instrumentor is bound to that instrumentor
\* itself, a kind with n >= 2 is bound to one Composite whose list is those
\* n instrumentors in registration order with no Composite inside, and a
\* registration for a kind changes the binding of no other kind.
C5_CompositeRule ==
    /\ \A r \in Registries, k \in Kinds :
        LET log == registered[r][k]
            bound == DictGet(instrumentors[r], k)
        IN  (\A i \in 1..Len(log) : log[i] \in Instrumentors) =>
                /\ Len(log) = 0 => bound = None
                /\ Len(log) = 1 => bound = log[1]
                /\ Len(log) >= 2 =>
                        /\ IsComposite(bound)
                        /\ CompositeAt(heap, bound).kind = k
                        /\ CompositeAt(heap, bound).instrumentors = log
                        /\ \A i \in 1..Len(CompositeAt(heap, bound).instrumentors) :
                                ~IsComposite(CompositeAt(heap, bound).instrumentors[i])
    /\ last.op \in {"register", "register_many"} =>
        /\ \A k \in Kinds \ Keys(last.items) :
                DictGet(instrumentors[last.registry], k)
                    = DictGet(last.before[last.registry], k)
        /\ \A r \in Registries \ {last.registry} : instrumentors[r] = last.before[r]

C5_Witness ==
    \E r \in Registries :
        /\ last.op = "register"
        /\ registered[r][kind0] = <<1, 2, 3>>
        /\ IsComposite(DictGet(instrumentors[r], kind0))
        /\ DictGet(instrumentors[r], kind1) = 2

\* C6: r2.extend(r1) leaves r2 as register(kind, instrumentor) for every
\* binding of r1, in r1's insertion order, leaves it: a kind bound only in
\* r1 is bound to r1's instrumentor object and goes after r2's keys, a kind
\* bound in both is bound to a new Composite of r2's former binding (its
\* list, when that was a Composite) followed by r1's, a kind bound only in
\* r2 keeps its binding; with disjoint kinds the mapping is the union.
C6_ExtendRegistersEach ==
    last.op = "extend" =>
        LET self == last.registry
            mine == last.before[self]
            theirs == last.items
            NotMine(k) == k \notin Keys(mine)
        IN  /\ theirs = last.before[last.other]
            /\ KeysInOrder(instrumentors[self])
                 = KeysInOrder(mine) \o SelectSeq(KeysInOrder(theirs), NotMine)
            /\ \A k \in Kinds :
                LET a == DictGet(mine, k)
                    b == DictGet(theirs, k)
                    now == DictGet(instrumentors[self], k)
                IN  /\ b = None => now = a
                    /\ (a = None /\ b # None) => now = b
                    /\ (a # None /\ b # None) =>
                            /\ IsComposite(now)
                            /\ now \notin {Address(j) : j \in 1..Len(last.heapBefore)}
                            /\ CompositeAt(heap, now)
                                 = InstrumentorComposite(self, k,
                                        AsList(last.heapBefore, a) \o <<b>>)
            /\ Keys(mine) \cap Keys(theirs) = {} => instrumentors[self] = mine \o theirs

C6_Witness ==
    /\ last.op = "extend"
    /\ last.registry = "r1"
    /\ last.before["r1"] = <<Item(kind1, 2)>>
    /\ last.items = <<Item(kind0, 1)>>
    /\ instrumentors["r1"] = <<Item(kind1, 2), Item(kind0, 1)>>

\* C7: register(k, i) called a second time with the same kind and the same
\* instrumentor object leaves the registry as it was after the first call;
\* the binding for k gains no duplicate entry for i.
C7_RegisterIdempotent ==
    (/\ last.op = "register"
     /\ \E n \in 1..Len(AsList(last.heapBefore, DictGet(last.before[last.registry], last.kind))) :
            AsList(last.heapBefore, DictGet(last.before[last.registry], last.kind))[n]
                = last.items[1].instrumentor)
    => /\ instrumentors = last.before
       /\ AsList(heap, DictGet(instrumentors[last.registry], last.kind))
            = AsList(last.heapBefore, DictGet(last.before[last.registry], last.kind))

\* C8 as stated: instrument(kind, params) on a kind with no binding fails
\* with a NoProvider(kind) error, an error kind distinct from the one for a
\* failed instrumentation, invokes no instrumentor and leaves the mapping.
C8_NoProviderError ==
    (last.op = "instrument" /\ DictGet(last.before[last.registry], last.kind) = None) =>
        /\ last.result.outcome = "raise"
        /\ last.result.exc = "NoProvider"
        /\ last.result.exc # InstrumentorError
        /\ last.result.about = last.kind
        /\ last.result.calls = <<>>
        /\ instrumentors = last.before

\* C8 amended: instrument(kind, params) on a kind with no binding fails with
\* an InstrumentorError, the error class of a failed instrumentation too,
\* whose message is "no provider kind=<kind>" and which has no cause; no
\* instrumentor is invoked and the registry mapping does not change.
C8_NoProviderIsInstrumentorError ==
    (last.op = "instrument" /\ DictGet(last.before[last.registry], last.kind) = None) =>
        /\ last.result.outcome = "raise"
        /\ last.result.exc = InstrumentorError
        /\ last.result.message = "no provider"
        /\ last.result.about = last.kind
        /\ last.result.cause = None
        /\ last.result.scanners = <<>>
        /\ last.result.calls = <<>>
        /\ instrumentors = last.before
        /\ heap = last.heapBefore

C8_Witness ==
    /\ last.op = "instrument"
    /\ last.kind = kind1
    /\ DictGet(instrumentors[last.registry], kind1) = None
    /\ DictGet(instrumentors[last.registry], kind0) # None
    /\ last.result.message = "no provider"

\* The user instrumentors a binding reaches, in the order they are invoked
RECURSIVE Leaves(_, _)
RECURSIVE LeavesOfEach(_, _)
Leaves(hp, ref) ==
    IF IsComposite(ref) THEN LeavesOfEach(hp, CompositeAt(hp, ref).instrumentors)
    ELSE <<ref>>

LeavesOfEach(hp, list) ==
    IF list = <<>> THEN <<>>
    ELSE Leaves(hp, Head(list)) \o LeavesOfEach(hp, Tail(list))

FirstIn(list, S) ==
    list[CHOOSE i \in 1..Len(list) :
            /\ list[i] \in S
            /\ \A j \in 1..(i - 1) : list[j] \notin S]

\* C9: when the instrumentor bound to the kind raises, instrument raises an
\* InstrumentorError that identifies the kind and has the original exception
\* as its cause, and returns no scanner list; when none raises, the
\* instrumentor's result is returned unchanged.
C9_FailureWrapped ==
    (last.op = "instrument" /\ DictGet(last.before[last.registry], last.kind) # None) =>
        LET bound == DictGet(last.before[last.registry], last.kind)
            leaves == Leaves(last.heapBefore, bound)
            raising == \E i \in 1..Len(leaves) : leaves[i] \in last.raisers
        IN  /\ raising =>
                /\ last.result.outcome = "raise"
                /\ last.result.exc = InstrumentorError
                /\ last.result.message = "failed to instrument"
                /\ last.result.about = last.kind
                /\ last.result.cause = FirstIn(leaves, last.raisers)
                /\ last.result.scanners = <<>>
            /\ ~raising =>
                /\ last.result.outcome = "return"
                /\ last.result.scanners
                     = InstrumentorInstrument(last.heapBefore, bound, last.registry,
                                              last.kind, last.params, {}).scanners
                /\ [i \in 1..Len(last.result.calls) |-> last.result.calls[i].instrumentor]
                     = leaves

C9_Witness ==
    /\ last.op = "instrument"
    /\ IsComposite(DictGet(instrumentors[last.registry], last.kind))
    /\ last.raisers = {2}
    /\ last.result.outcome = "raise"
    /\ last.result.cause = 2

RECURSIVE ReturnedByEach(_, _, _, _, _)
ReturnedByEach(hp, list, registry, kind, params) ==
    IF list = <<>> THEN <<>>
    ELSE InstrumentorInstrument(hp, Head(list), registry, kind, params, {}).scanners
            \o ReturnedByEach(hp, Tail(list), registry, kind, params)

\* C10: instrumenting a kind bound to a Composite returns exactly one
\* scanner, a SystemAll named "<kind.namespace>/<kind.name>" whose children
\* are the concatenation, in registration order, of the scanner lists each
\* constituent returns for the same registry, kind and parameters.
C10_CompositeFansOut ==
    (/\ last.op = "instrument"
     /\ IsComposite(DictGet(last.before[last.registry], last.kind))
     /\ last.result.outcome = "return") =>
        LET list == CompositeAt(last.heapBefore,
                                DictGet(last.before[last.registry], last.kind)).instrumentors
        IN  /\ Len(last.result.scanners) = 1
            /\ last.result.scanners[1].type = "SystemAll"
            /\ last.result.scanners[1].name = last.kind.namespace \o "/" \o last.kind.name
            /\ last.result.scanners[1].scanners
                 = ReturnedByEach(last.heapBefore, list, last.registry, last.kind, last.params)
            /\ \A i \in 1..Len(last.result.calls) :
                    last.result.calls[i]
                        = InvokedWith(last.result.calls[i].instrumentor,
                                      last.registry, last.kind, last.params)

C10_Witness ==
    /\ last.op = "instrument"
    /\ last.kind = kind0
    /\ last.result.outcome = "return"
    /\ Len(last.result.scanners) = 1
    /\ last.result.scanners[1].name = "alpacalert.example.com/0"
    /\ [i \in 1..Len(last.result.scanners[1].scanners) |->
            last.result.scanners[1].scanners[i].by] = <<2, 2, 1>>

(***************************************************************************)
(* instrumentors/k8s.py: K8s, the caching facade over the Kubernetes API   *)
(***************************************************************************)
\* kr8s.ALL, the namespace that stands for every namespace
ALL == "all"

\* e.namespace of an object that is not namespaced (StorageClass.namespaced = False)
NoNamespace == "None"

\* The kinds the callers ask for: SensorCronJob asks for "Job", and
\* SensorStorageclass for "StorageClasses", the plural of the descriptor
\* whose kind is "StorageClass"
K8sKinds == {"Job", "StorageClasses"}
Namespaces == {"a", "b"}
Names == {"x", "y"}

OwnerRef(kind, apiVersion, name) == [kind |-> kind, apiVersion |-> apiVersion, name |-> name]

\* An API object: e.kind, e.namespace, e.name, e.metadata["ownerReferences"]
APIObject(kind, namespace, name, ownerReferences) ==
    [kind |-> kind, namespace |-> namespace, name |-> name,
     ownerReferences |-> ownerReferences]

\* The owner handed to owned(): owner.kind, owner.version, owner.name
Owner(kind, version, name) == [kind |-> kind, version |-> version, name |-> name]

Owners == {Owner("CronJob", "batch/v1", "c"), Owner("CronJob", "batch/v1beta1", "c")}

\* The objects a cluster may hold, in the order the API lists them
Universe ==
    << APIObject("Job", "a", "x", <<OwnerRef("CronJob", "batch/v1", "c")>>),
       APIObject("Job", "a", "y", <<>>),
       APIObject("Job", "b", "x", <<OwnerRef("CronJob", "batch/v1", "c")>>),
       APIObject("StorageClass", NoNamespace, "x", <<>>) >>

Range(s) == {s[i] : i \in 1..Len(s)}

Clusters == {SelectSeq(Universe, LAMBDA e : e \in held) : held \in SUBSET Range(Universe)}

\* The descriptor's `plural`, by which kr8s also resolves a kind
Plural(kind) == IF kind = "StorageClass" THEN "StorageClasses" ELSE kind \o "s"

\* self.kr8s.get(kind, namespace=namespace): the objects of the kind, those of
\* the namespace when the kind is namespaced
Kr8sGet(cluster, kind, namespace) ==
    SelectSeq(cluster,
              LAMBDA e : /\ kind \in {e.kind, Plural(e.kind)}
                         /\ \/ namespace = ALL
                            \/ e.namespace = namespace
                            \/ e.namespace = NoNamespace)

\* The cache is a dict of dicts: a sequence of keys (kind, namespace) in
\* insertion order, each with its dict of objects in insertion order.
Entry(key, value) == [key |-> key, value |-> value]

HasKey(dict, key) == \E i \in 1..Len(dict) : dict[i].key = key

Value(dict, key) == dict[CHOOSE i \in 1..Len(dict) : dict[i].key = key].value

\* defaultdict(dict).__getitem__: a key that is read is created when missing
Touch(dict, key) == IF HasKey(dict, key) THEN dict ELSE Append(dict, Entry(key, <<>>))

\* d[e.name] = e on one inner dict
Store(objs, e) ==
    IF \E i \in 1..Len(objs) : objs[i].name = e.name
    THEN [i \in 1..Len(objs) |-> IF objs[i].name = e.name THEN e ELSE objs[i]]
    ELSE Append(objs, e)

\* self._cache_get_all[(e.kind, e.namespace)][e.name] = e
CacheOne(dict, e) ==
    LET key == <<e.kind, e.namespace>>
        touched == Touch(dict, key)
    IN  [i \in 1..Len(touched) |->
            IF touched[i].key = key
            THEN Entry(key, Store(touched[i].value, e))
            ELSE touched[i]]

RECURSIVE add_to_cache(_, _)
add_to_cache(dict, objs) ==
    IF objs = <<>> THEN dict
    ELSE add_to_cache(CacheOne(dict, Head(objs)), Tail(objs))

\* The facade with its cluster: k.cluster, k.cache, k.listed
Facade == [cluster |-> api, cache |-> cache, listed |-> listed]

Outcome(k, dict, requests, returned) ==
    [cluster |-> k.cluster, cache |-> dict, listed |-> requests, returned |-> returned]

get_all(k, kind, namespace) ==
    LET key == <<kind, namespace>> IN
    IF HasKey(k.cache, key)
    THEN Outcome(k, k.cache, k.listed, Value(k.cache, key))
    ELSE LET v == Kr8sGet(k.cluster, kind, namespace) IN
         Outcome(k, add_to_cache(k.cache, v), Append(k.listed, key), v)

\* returns <<e>> for the object e and <<>> for None
get(k, kind, namespace, name) ==
    LET key == <<kind, namespace>>
        after == IF ~HasKey(k.cache, key) THEN get_all(k, kind, namespace)
                 ELSE Outcome(k, k.cache, k.listed, <<>>)
        touched == Touch(after.cache, key)
    IN  Outcome(k, touched, after.listed,
                SelectSeq(Value(touched, key), LAMBDA e : e.name = name))

exists(k, kind, namespace, name) ==
    LET got == get(k, kind, namespace, name) IN
    Outcome(k, got.cache, got.listed, got.returned # <<>>)

\* _is_owner_ref comparing the names only
IsOwnerRefByName(ref, owner) == ref.name = owner.name

is_owner_ref(ref, owner) ==
    /\ ref.kind = owner.kind
    /\ ref.apiVersion = owner.version
    /\ ref.name = owner.name

owned(k, kind, namespace, owner) ==
    LET all == get_all(k, kind, namespace) IN
    Outcome(k, all.cache, all.listed,
            SelectSeq(all.returned,
                      LAMBDA e : \E i \in 1..Len(e.ownerReferences) :
                                    is_owner_ref(e.ownerReferences[i], owner)))

(***************************************************************************)
(* SpecK8s: one facade over one cluster, called MaxCalls times             *)
(***************************************************************************)
NoOwner == Owner("none", "none", "none")

\* The record of one call: what was asked, the facade before it, what came back
Call(count, op, kind, namespace, name, owner, out) ==
    [count |-> count, op |-> op, kind |-> kind, namespace |-> namespace,
     name |-> name, owner |-> owner,
     cacheBefore |-> cache, listedBefore |-> listed,
     returned |-> IF op = "exists" THEN <<>> ELSE out.returned,
     truth |-> IF op = "exists" THEN out.returned ELSE FALSE]

InitK8s ==
    /\ OutsideK8sIdle
    /\ api \in Clusters
    /\ cache = <<>>
    /\ listed = <<>>
    /\ answer = Call(0, "none", "none", "none", "none", NoOwner,
                     Outcome(Facade, <<>>, <<>>, <<>>))

Answers(op, kind, namespace, name, owner, out) ==
    /\ answer.count < MaxCalls
    /\ cache' = out.cache
    /\ listed' = out.listed
    /\ answer' = Call(answer.count + 1, op, kind, namespace, name, owner, out)
    /\ UNCHANGED <<api, outsideK8s>>

\* k.get_all(kind, namespace)
GetAll ==
    \E kind \in K8sKinds, namespace \in Namespaces \cup {ALL} :
        Answers("get_all", kind, namespace, "none", NoOwner,
                get_all(Facade, kind, namespace))

\* k.get(kind, namespace, name)
Get ==
    \E kind \in K8sKinds, namespace \in Namespaces \cup {ALL}, name \in Names :
        Answers("get", kind, namespace, name, NoOwner,
                get(Facade, kind, namespace, name))

\* k.exists(kind, namespace, name)
Exists ==
    \E kind \in K8sKinds, namespace \in Namespaces \cup {ALL}, name \in Names :
        Answers("exists", kind, namespace, name, NoOwner,
                exists(Facade, kind, namespace, name))

\* k.owned(kind, namespace, owner)
Owned ==
    \E kind \in K8sKinds, namespace \in Namespaces \cup {ALL}, owner \in Owners :
        Answers("owned", kind, namespace, "none", owner,
                owned(Facade, kind, namespace, owner))

NextK8s ==
    \/ GetAll
    \/ Get
    \/ Exists
    \/ Owned

SpecK8s == InitK8s /\ [][NextK8s]_vars

(***************************************************************************)
(* Claims about the K8s facade (SpecK8s)                                   *)
(***************************************************************************)
ApiNames(kind, namespace) == {e.name : e \in Range(Kr8sGet(api, kind, namespace))}

\* C11: whatever sequence of exists/get/get_all/owned calls is made on one
\* facade, the API is asked to list a given (kind, namespace) at most once
\* (so a get() after a get_all() of the same pair lists nothing).
C11_ListedAtMostOnce ==
    \A i \in 1..Len(listed), j \in 1..Len(listed) :
        listed[i] = listed[j] => i = j

\* C12: a key (kind, namespace) present in the cache maps to exactly the
\* objects the API lists for that kind and namespace, never to a partial or
\* empty view of a non-empty list.
C12_CachedIsFullList ==
    \A i \in 1..Len(cache) :
        Range(cache[i].value) = Range(Kr8sGet(api, cache[i].key[1], cache[i].key[2]))

\* C13: get(kind, namespace, name) returns an object of that name from the
\* API's list for (kind, namespace) when there is one and None otherwise, and
\* exists(kind, namespace, name) is true exactly when there is one.
C13_GetFindsNamed ==
    /\ answer.op = "get" =>
          IF answer.name \in ApiNames(answer.kind, answer.namespace)
          THEN /\ Len(answer.returned) = 1
               /\ answer.returned[1] \in Range(Kr8sGet(api, answer.kind, answer.namespace))
               /\ answer.returned[1].name = answer.name
          ELSE answer.returned = <<>>
    /\ answer.op = "exists" =>
          answer.truth = (answer.name \in ApiNames(answer.kind, answer.namespace))

(***************************************************************************)
(* transform.py: find_scanners and find_path                               *)
(***************************************************************************)
NotFoundException == "NotFoundException"

Status(state, messages) == [state |-> state, messages |-> messages]

\* generic.py: SensorConstant(name, val)
SensorConstant(name, val) == [type |-> "SensorConstant", name |-> name, val |-> val]

\* scanner.children(), when it returns
children(scanner) ==
    CASE scanner.type = "SensorConstant" -> <<>>
      [] scanner.type = "ScannerRaising" -> <<>>
      [] scanner.type = "ServiceBasic" -> <<scanner.system>>
      [] OTHER -> scanner.scanners

\* The outcome of a find: the scanners returned, or the exception raised with
\* what its message tells (name and n of find_scanners; i, segment and path of
\* find_path, `cause` being the exception it was raised from)
Located(tgts) ==
    [outcome |-> "return", scanners |-> tgts, exc |-> NoException,
     name |-> "", n |-> 0, i |-> 0, segment |-> "", path |-> <<>>, cause |-> <<>>]

NotFound(name, n, i, segment, path, cause) ==
    [outcome |-> "raise", scanners |-> <<>>, exc |-> NotFoundException,
     name |-> name, n |-> n, i |-> i, segment |-> segment, path |-> path, cause |-> cause]

\* Mutant of find_scanners: stops at the first scanner of that name
FindFirstOnly(scanners_, name) ==
    IF name = "*" THEN Located(scanners_)
    ELSE LET matching == SelectSeq(scanners_, LAMBDA scanner : scanner.name = name) IN
         IF matching = <<>>
         THEN NotFound(name, Len(scanners_), 0, "", <<>>, <<>>)
         ELSE Located(<<Head(matching)>>)

find_scanners(scanners_, name) ==
    IF name = "*" THEN Located(scanners_)
    ELSE LET matching == SelectSeq(scanners_, LAMBDA scanner : scanner.name = name) IN
         IF matching = <<>>
         THEN NotFound(name, Len(scanners_), 0, "", <<>>, <<>>)
         ELSE Located(matching)

\* sum((list(tgt.children()) for tgt in tgts), start=[])
RECURSIVE ChildrenOfEach(_)
ChildrenOfEach(tgts) ==
    IF tgts = <<>> THEN <<>>
    ELSE children(Head(tgts)) \o ChildrenOfEach(Tail(tgts))

\* The loop of find_path from segment i (counted from 0) on
RECURSIVE FindFrom(_, _, _, _)
FindFrom(working, tgts, path, i) ==
    IF i >= Len(path) THEN Located(tgts)
    ELSE LET segment == path[i + 1]
             e == find_scanners(working, segment)
         IN  IF e.outcome = "raise"
             THEN NotFound("", 0, i, segment, path, <<e>>)
             ELSE FindFrom(ChildrenOfEach(e.scanners), e.scanners, path, i + 1)

\* Mutant of find_path: every segment is looked up among the roots
FindPathAmongRoots(scanners_, path) ==
    LET RECURSIVE Flat(_, _)
        Flat(tgts, i) ==
            IF i >= Len(path) THEN Located(tgts)
            ELSE LET e == find_scanners(scanners_, path[i + 1]) IN
                 IF e.outcome = "raise"
                 THEN NotFound("", 0, i, path[i + 1], path, <<e>>)
                 ELSE Flat(e.scanners, i + 1)
    IN  Flat(<<>>, 0)

find_path(scanners_, path) == FindFrom(scanners_, <<>>, path, 0)

(***************************************************************************)
(* SpecTransform: find_scanners and find_path applied to a forest          *)
(***************************************************************************)
ScannerNames == {"S0", "N0"}
Segments == ScannerNames \cup {"*"}

Sensors == {SensorConstant(name, Status(PASSING, <<>>)) : name \in ScannerNames}
Systems == {SystemAll(name, kids) : name \in ScannerNames, kids \in SeqsUpTo(Sensors, MaxKids)}

Find(op, name, path, result) ==
    [op |-> op, name |-> name, path |-> path, result |-> result]

InitTransform ==
    /\ OutsideTransformIdle
    /\ roots \in SeqsUpTo(Sensors \cup Systems, MaxRoots)
    /\ found = Find("none", "", <<>>, Located(<<>>))

\* find_scanners(scanners, name), the one call of the run
FindScanners ==
    \E name \in Segments :
        /\ found.op = "none"
        /\ found' = Find("find_scanners", name, <<>>, find_scanners(roots, name))
        /\ UNCHANGED <<roots, outsideTransform>>

\* find_path(scanners, path), the one call of the run
FindPath ==
    \E path \in SeqsUpTo(Segments, MaxPath) :
        /\ found.op = "none"
        /\ found' = Find("find_path", "", path, find_path(roots, path))
        /\ UNCHANGED <<roots, outsideTransform>>

NextTransform ==
    \/ FindScanners
    \/ FindPath

SpecTransform == InitTransform /\ [][NextTransform]_vars

(***************************************************************************)
(* Claims about find_scanners and find_path (SpecTransform)                *)
(***************************************************************************)
\* The positions of `among` that hold a scanner named `name`
Named(among, name) == {p \in 1..Len(among) : among[p].name = name}

\* The k-th smallest member of a set of positions
Kth(positions, k) ==
    CHOOSE p \in positions : Cardinality({q \in positions : q < p}) = k - 1

\* `tgts` is the scanners of `among` at `positions`, in the order of `among`
PickedInOrder(tgts, among, positions) ==
    /\ Len(tgts) = Cardinality(positions)
    /\ \A k \in 1..Len(tgts) : tgts[k] = among[Kth(positions, k)]

\* C14: find_scanners returns its input unchanged for the name "*" (the empty
\* input included); for any other name it returns every scanner of that name,
\* duplicates included, in input order, and raises NotFoundException exactly
\* when there is none.
C14_FindScanners ==
    found.op = "find_scanners" =>
        IF found.name = "*"
        THEN /\ found.result.outcome = "return"
             /\ found.result.scanners = roots
        ELSE IF Named(roots, found.name) = {}
        THEN /\ found.result.outcome = "raise"
             /\ found.result.exc = NotFoundException
        ELSE /\ found.result.outcome = "return"
             /\ PickedInOrder(found.result.scanners, roots, Named(roots, found.name))

\* a name borne by two of the scanners, both returned
C14_Witness ==
    /\ found.op = "find_scanners"
    /\ found.name # "*"
    /\ Cardinality(Named(roots, found.name)) = 2
    /\ Len(found.result.scanners) = 2

\* The scanners at depth d of the forest, from left to right
RECURSIVE AtDepth(_)
AtDepth(d) == IF d = 0 THEN roots ELSE ChildrenOfEach(AtDepth(d - 1))

\* What segment i (counted from 0) of the path is looked up in, and what the
\* lookup yields
RECURSIVE Yielded(_, _)
LookedUpIn(path, i) ==
    IF i = 0 THEN roots ELSE ChildrenOfEach(Yielded(path, i - 1))
Yielded(path, i) ==
    LET among == LookedUpIn(path, i) IN
    IF path[i + 1] = "*" THEN among
    ELSE SelectSeq(among, LAMBDA scanner : scanner.name = path[i + 1])

\* The segments whose lookup yields no scanner, and those among them that
\* name a scanner
Barren(path) == {i \in 0..(Len(path) - 1) : Yielded(path, i) = <<>>}
Unmatched(path) == {i \in Barren(path) : path[i + 1] # "*"}

Least(S) == CHOOSE i \in S : \A j \in S : i <= j

FoundAtDepth(path, result) ==
    /\ result.outcome = "return"
    /\ result.scanners = Yielded(path, Len(path) - 1)
    /\ \A k \in 1..Len(result.scanners) :
          \E p \in 1..Len(AtDepth(Len(path) - 1)) :
              result.scanners[k] = AtDepth(Len(path) - 1)[p]

RaisedAt(path, result, i) ==
    /\ result.outcome = "raise"
    /\ result.exc = NotFoundException
    /\ result.i = i
    /\ result.segment = path[i + 1]

\* C15 as stated: find_path looks segment 0 up among the roots and each later
\* segment among the children of the previous segment's matches, returns
\* scanners of depth len(path) - 1, and raises NotFoundException naming the
\* index of the first segment whose lookup yields no scanner.
C15_RaisesAtFirstBarren ==
    (found.op = "find_path" /\ found.path # <<>>) =>
        IF Barren(found.path) = {}
        THEN FoundAtDepth(found.path, found.result)
        ELSE RaisedAt(found.path, found.result, Least(Barren(found.path)))

\* C15 amended: it raises NotFoundException naming the index of the first
\* segment other than "*" that matches no scanner; a "*" segment over no
\* scanner yields none without raising, and so does the empty path.
C15_RaisesAtFirstUnmatched ==
    found.op = "find_path" =>
        IF found.path = <<>>
        THEN found.result.outcome = "return" /\ found.result.scanners = <<>>
        ELSE IF Unmatched(found.path) = {}
        THEN FoundAtDepth(found.path, found.result)
        ELSE RaisedAt(found.path, found.result, Least(Unmatched(found.path)))

\* a path whose second segment "*" yields no scanner and whose third segment
\* is the one reported
C15_Witness ==
    /\ found.op = "find_path"
    /\ Len(found.path) = 3
    /\ found.path[2] = "*"
    /\ Yielded(found.path, 0) # <<>>
    /\ Yielded(found.path, 1) = <<>>
    /\ found.result.outcome = "raise"
    /\ found.result.i = 2

(***************************************************************************)
(* The scanners a tree is made of                                          *)
(***************************************************************************)
\* models.py: Log(message, severity), the severity by its name
Log(message, severity) == [message |-> message, severity |-> severity]

\* generic.py: SystemAny(name, scanners)
SystemAny(name, kids) ==
    [type |-> "SystemAny", name |-> name, scanners |-> kids,
     by |-> None, index |-> 0, registry |-> "none", kind |-> NoKind, params |-> "none"]

\* generic.py: ServiceBasic(name, system)
ServiceBasic(name, system) == [type |-> "ServiceBasic", name |-> name, system |-> system]

\* A Scanner whose status() raises and which has no children
ScannerRaising(name) == [type |-> "ScannerRaising", name |-> name]

\* A Scanner declared with `status = status_all` whose children() computes its
\* children on demand, as the scanners of instrumentors/k8s.py do; `raises`
\* tells whether that computation fails (SensorCluster.children raises
\* InstrumentorError)
ScannerStatusAll(name, kids, raises) ==
    [type |-> "ScannerStatusAll", name |-> name, scanners |-> kids, raises |-> raises]

\* scanner.children() raises
ChildrenRaise(scanner) == scanner.type = "ScannerStatusAll" /\ scanner.raises

AsChild(r) == IF r.outcome = "raise" THEN RAISES ELSE r.state

\* scanner.status(): a record of the shape of `ret`
RECURSIVE status(_)
status(scanner) ==
    LET each == [i \in 1..Len(children(scanner)) |-> AsChild(status(children(scanner)[i]))] IN
    CASE scanner.type = "SensorConstant" ->
            [Returned("SensorConstant", <<>>, scanner.val.state)
                EXCEPT !.messages = scanner.val.messages]
      [] scanner.type = "ScannerRaising" ->
            Raised("ScannerRaising", <<>>, ChildError, NoException, 0)
      [] scanner.type = "ServiceBasic" -> status(scanner.system)
      [] scanner.type = "SystemAll" -> SystemAllStatus(each)
      [] scanner.type = "SystemAny" -> SystemAnyStatus(each)
      [] scanner.type = "ScannerStatusAll" ->
            IF scanner.raises
            THEN Raised("status_all", <<>>, ScannerError, InstrumentorError, 0)
            ELSE StatusAllOf(each)

(***************************************************************************)
(* visualisers/console.py: VisualiserConsole                               *)
(***************************************************************************)
\* Show.ALL, Show.ONLY_FAILING
Show == {"all", "only_failing"}

\* mk_symbols(State.PASSING.value, State.FAILING.value, State.UNKNOWN.value)
symbols == [state \in State |-> state]

\* "\t" * indent
RECURSIVE Tabs(_)
Tabs(indent) == IF indent = 0 THEN "" ELSE "\t" \o Tabs(indent - 1)

\* separator.join(strings)
RECURSIVE Join(_, _)
Join(separator, strings) ==
    IF strings = <<>> THEN ""
    ELSE IF Len(strings) = 1 THEN strings[1]
    ELSE strings[1] \o separator \o Join(separator, Tail(strings))

\* str(e) of a scanner, abridged to its class and name
Str(e) == e.type \o "(name='" \o e.name \o "')"

\* json.dumps({"name": ..., "type": ..., "children": [...]})
JsonDumps(name, type, strs) ==
    "{\"name\": \"" \o name \o "\", \"type\": \"" \o type \o "\", \"children\": ["
    \o Join(", ", [i \in 1..Len(strs) |-> "\"" \o strs[i] \o "\""]) \o "]}"

visualise_log(log, indent) ==
    Tabs(indent) \o "- " \o log.severity \o ": " \o log.message

Lines(lines) == [outcome |-> "return", lines |-> lines]
Propagated == [outcome |-> "raise", lines |-> <<>>]

\* itertools.chain.from_iterable over the blocks of the children
RECURSIVE ChainFromIterable(_)
ChainFromIterable(blocks) ==
    IF blocks = <<>> THEN <<>>
    ELSE Head(blocks).lines \o ChainFromIterable(Tail(blocks))

\* Mutant of visualise_scanner: the children are drawn at their parent's indent
VisualiseScannerFlat(show, scanner, indent) ==
    LET RECURSIVE Flat(_)
        Flat(node) ==
            LET r == status(node)
                st == IF r.outcome = "raise"
                      THEN Status(UNKNOWN, <<Log("Unable to get status", "ERROR")>>)
                      ELSE Status(r.state, r.messages)
                blocks == [i \in 1..Len(children(node)) |-> Flat(children(node)[i])]
            IN  IF ChildrenRaise(node) THEN Propagated
                ELSE IF show = "only_failing" /\ st.state = PASSING THEN Lines(<<>>)
                ELSE IF \E i \in 1..Len(blocks) : blocks[i].outcome = "raise" THEN Propagated
                ELSE Lines(<<Tabs(indent) \o symbols[st.state] \o " : " \o node.name>>
                           \o [i \in 1..Len(st.messages) |-> visualise_log(st.messages[i], indent)]
                           \o ChainFromIterable(blocks))
    IN  Flat(scanner)

\* VisualiserConsole(show=show)._visualise_scanner(scanner, indent): the lines
\* returned, or the exception that leaves it
RECURSIVE visualise_scanner(_, _, _)
visualise_scanner(show, scanner, indent) ==
    LET r == status(scanner)
        \* the `except:` block, which asks the scanner for its children
        message == "Unable to get status for "
                   \o JsonDumps(scanner.name, scanner.type,
                                [i \in 1..Len(children(scanner)) |-> Str(children(scanner)[i])])
        st == IF r.outcome = "raise"
              THEN Status(UNKNOWN, <<Log(message, "ERROR")>>)
              ELSE Status(r.state, r.messages)
        this == Tabs(indent) \o symbols[st.state] \o " : " \o scanner.name
        logs == [i \in 1..Len(st.messages) |-> visualise_log(st.messages[i], indent)]
        blocks == [i \in 1..Len(children(scanner)) |->
                      visualise_scanner(show, children(scanner)[i], indent + 1)]
    IN  IF r.outcome = "raise" /\ ChildrenRaise(scanner) THEN Propagated
        ELSE IF show = "only_failing" /\ st.state = PASSING THEN Lines(<<>>)
        ELSE IF ChildrenRaise(scanner) THEN Propagated
        ELSE IF \E i \in 1..Len(blocks) : blocks[i].outcome = "raise" THEN Propagated
        ELSE Lines(<<this>> \o logs \o ChainFromIterable(blocks))

\* VisualiserConsole(show=show).visualise(service): the text returned, with
\* the lines it was joined from
visualise(show, service) ==
    LET r == visualise_scanner(show, service, 0) IN
    [outcome |-> r.outcome, lines |-> r.lines,
     text |-> IF r.outcome = "raise" THEN "" ELSE Join("\n", r.lines) \o "\n"]

(***************************************************************************)
(* SpecConsole: a tree of scanners is constructed bottom-up and visualised *)
(***************************************************************************)
\* The Status values given to SensorConstant (test_sensor_0 and test_sensor_1
\* of console_test.py)
Vals ==
    { Status(PASSING, <<Log("test message 0", "WARN")>>),
      Status(FAILING, <<>>) }

\* The number of scanners of a tree, and of a list of trees
RECURSIVE Size(_)
RECURSIVE SizeOfEach(_)
Size(scanner) ==
    1 + IF ChildrenRaise(scanner) THEN 0 ELSE SizeOfEach(children(scanner))

SizeOfEach(list) ==
    IF list = <<>> THEN 0 ELSE Size(Head(list)) + SizeOfEach(Tail(list))

\* Every scanner is constructed with a name of its own
NewName == "n" \o ToString(SizeOfEach(stack))

NotShown == [show |-> "none", service |-> <<>>, outcome |-> "none", lines |-> <<>>, text |-> ""]

InitConsole ==
    /\ OutsideConsoleIdle
    /\ stack = <<>>
    /\ shown = NotShown

Constructs(scanner, used) ==
    /\ SizeOfEach(stack) < MaxNodes
    /\ stack' = Append(SubSeq(stack, 1, Len(stack) - used), scanner)
    /\ shown' = NotShown
    /\ UNCHANGED outsideConsole

\* SensorConstant(name, val)
NewSensorConstant ==
    \E val \in Vals : Constructs(SensorConstant(NewName, val), 0)

\* a scanner whose status() raises
NewScannerRaising ==
    Constructs(ScannerRaising(NewName), 0)

\* a scanner with status_all whose children() raises
NewScannerWithoutChildren ==
    Constructs(ScannerStatusAll(NewName, <<>>, TRUE), 0)

\* SystemAll(name, scanners) or SystemAny(name, scanners) over the last
\* scanners constructed
NewSystem ==
    \E used \in 0..Len(stack) :
        LET kids == SubSeq(stack, Len(stack) - used + 1, Len(stack)) IN
        \/ Constructs(SystemAll(NewName, kids), used)
        \/ Constructs(SystemAny(NewName, kids), used)

\* ServiceBasic(name, system)
NewServiceBasic ==
    /\ stack # <<>>
    /\ Constructs(ServiceBasic(NewName, stack[Len(stack)]), 1)

\* VisualiserConsole(show=show).visualise(service)
Visualise ==
    \E show \in Show :
        /\ Len(stack) = 1
        /\ shown = NotShown
        /\ LET service == stack[1]
               r == visualise(show, service)
           IN  shown' = [show |-> show, service |-> service, outcome |-> r.outcome,
                         lines |-> r.lines, text |-> r.text]
        /\ UNCHANGED <<stack, outsideConsole>>

NextConsole ==
    \/ NewSensorConstant
    \/ NewScannerRaising
    \/ NewScannerWithoutChildren
    \/ NewSystem
    \/ NewServiceBasic
    \/ Visualise

SpecConsole == InitConsole /\ [][NextConsole]_vars

(***************************************************************************)
(* Claims about the console visualiser (SpecConsole)                       *)
(***************************************************************************)
\* The scanners of a tree, the root included
RECURSIVE Family(_)
Family(scanner) ==
    {scanner} \cup UNION {Family(children(scanner)[i]) : i \in 1..Len(children(scanner))}

\* The Status a scanner is drawn with: its own, or UNKNOWN with one ERROR log
\* when its status() raises
Drawn(scanner) ==
    LET r == status(scanner) IN
    IF r.outcome = "raise"
    THEN Status(UNKNOWN,
                <<Log("Unable to get status for "
                      \o JsonDumps(scanner.name, scanner.type,
                                   [i \in 1..Len(children(scanner)) |->
                                       Str(children(scanner)[i])]),
                      "ERROR")>>)
    ELSE Status(r.state, r.messages)

\* The number of lines a scanner and its descendants take
RECURSIVE LineCount(_)
RECURSIVE LineCountOfEach(_)
LineCount(scanner) == 1 + Len(Drawn(scanner).messages) + LineCountOfEach(children(scanner))

LineCountOfEach(list) ==
    IF list = <<>> THEN 0 ELSE LineCount(Head(list)) + LineCountOfEach(Tail(list))

\* Where pre-order puts each scanner of the tree: its depth and the number of
\* its first line, the root being at depth 0 on line `at`
RECURSIVE Placed(_, _, _)
Placed(scanner, depth, at) ==
    LET kids == children(scanner)
        below == at + 1 + Len(Drawn(scanner).messages)
    IN  {[name |-> scanner.name, status |-> Drawn(scanner), depth |-> depth, at |-> at]}
        \cup UNION {Placed(kids[i], depth + 1,
                           below + LineCountOfEach(SubSeq(kids, 1, i - 1))) :
                    i \in 1..Len(kids)}

Heading(p) == Tabs(p.depth) \o symbols[p.status.state] \o " : " \o p.name

\* The lines are the pre-order rendering of the tree: each scanner has its one
\* heading line where pre-order puts it, followed by its log lines at the same
\* indent, and there is no other line
PreOrder(service, lines) ==
    /\ Len(lines) = LineCount(service)
    /\ \A p \in Placed(service, 0, 1) :
          /\ lines[p.at] = Heading(p)
          /\ Cardinality({k \in 1..Len(lines) : lines[k] = Heading(p)}) = 1
          /\ \A m \in 1..Len(p.status.messages) :
                lines[p.at + m] =
                    Tabs(p.depth) \o "- " \o p.status.messages[m].severity
                    \o ": " \o p.status.messages[m].message

StatusRaises(scanner) == status(scanner).outcome = "raise"

\* C16: visualise never lets an exception out when status() of a scanner of
\* the tree raises: the scanner is drawn UNKNOWN with one ERROR log and the
\* walk goes on with its children and siblings, so a rendered tree is always
\* returned.
C16_StatusFailureContained ==
    (shown.show # "none" /\ \E scanner \in Family(shown.service) : StatusRaises(scanner)) =>
        /\ shown.outcome = "return"
        /\ shown.show = "all" => PreOrder(shown.service, shown.lines)

\* C20: with Show.ALL, visualise emits the tree in pre-order, each scanner
\* once: a line "<symbol of its state> : <name>" indented by one tab per level,
\* then its "- <SEVERITY>: <message>" lines at the same indent, then its
\* children's blocks one level deeper; an aggregator shows its own folded state.
C20_PreOrderRendering ==
    (shown.show = "all" /\ \A scanner \in Family(shown.service) : ~StatusRaises(scanner)) =>
        /\ shown.outcome = "return"
        /\ PreOrder(shown.service, shown.lines)
        /\ shown.text = Join("\n", shown.lines) \o "\n"

\* a SystemAny that passes over a failing SystemAll and a passing sensor with
\* a log, all four of them drawn
C20_Witness ==
    /\ shown.show = "all"
    /\ shown.outcome = "return"
    /\ shown.service.type = "SystemAny"
    /\ Len(shown.service.scanners) = 2
    /\ shown.service.scanners[1].type = "SystemAll"
    /\ status(shown.service.scanners[1]).state = FAILING
    /\ status(shown.service).state = PASSING
    /\ shown.text = "passing : n3\n\tfailing : n1\n\t\tfailing : n0\n\tpassing : n2\n\t- WARN: test message 0\n"

(***************************************************************************)
(* instrumentors/k8s.py: InstrumentorK8sRegistry and SensorCluster         *)
(***************************************************************************)
\* for sensor in _sensors: self.register(k8skind(sensor[0]), InstrumentorK8s(k8s, (kind,), sensor[1]))
InstrumentorK8sRegistry(w, self) ==
    RegisterEach(w, self,
                 [i \in 1..Len(DefaultSensors) |-> Item(k8skind(DefaultSensors[i].kind), -i)])

\* The outcome of children(): the scanners returned or the exception raised
\* (for `kind` and the object named `name`), with the facade as it is left
Children(outcome, exc, kind, name, list, k) ==
    [outcome |-> outcome, exc |-> exc, kind |-> kind, name |-> name,
     scanners |-> list, cache |-> k.cache, listed |-> k.listed]

\* `for obj in objs`: the scanners of the sensor class, up to the first object
\* for which constructing one raises
RECURSIVE ForEachObject(_, _, _, _)
ForEachObject(cls, registry, objs, raisers) ==
    IF objs = <<>> THEN [outcome |-> "return", scanners |-> <<>>, name |-> ""]
    ELSE IF Head(objs) \in raisers
    THEN [outcome |-> "raise", scanners |-> <<>>, name |-> Head(objs).name]
    ELSE LET rest == ForEachObject(cls, registry, Tail(objs), raisers) IN
         [rest EXCEPT !.scanners = IF rest.outcome = "raise" THEN <<>>
                                   ELSE <<SensorKubernetes(cls, registry, Head(objs))>> \o @]

\* `for kind, sensor in self.k8s_instrumentors()`, from the i-th on.  (The
\* facade left by get_all is bound by a set constructor so that it is
\* evaluated once.)
RECURSIVE ForEachKind(_, _, _, _, _, _)
ForEachKind(k, registry, namespace, raisers, i, list) ==
    IF i > Len(k8s_instrumentors) THEN Children("return", NoException, "", "", list, k)
    ELSE LET kind == k8s_instrumentors[i].kind
             sensor == k8s_instrumentors[i].cls
             After(objs) ==
                LET each == ForEachObject(sensor, registry, objs.returned, raisers) IN
                IF each.outcome = "raise"
                THEN Children("raise", InstrumentorError, kind, each.name, <<>>, objs)
                ELSE ForEachKind(objs, registry, namespace, raisers, i + 1,
                                 list \o each.scanners)
         IN  IF IsSubKind(kind)
             THEN ForEachKind(k, registry, namespace, raisers, i + 1, list)
             ELSE CHOOSE r \in {After(objs) : objs \in {get_all(k, kind, namespace)}} : TRUE

\* SensorCluster(registry, k8s, cluster, namespace).children(), while
\* constructing a scanner for the objects in `raisers` raises
SensorClusterChildren(k, registry, namespace, raisers) ==
    ForEachKind(k, registry, namespace, raisers, 1, <<>>)

(***************************************************************************)
(* SpecCluster: a registry is set up as console_prometheus.py does, and    *)
(* the children of a cluster are asked for                                 *)
(***************************************************************************)
RegisteredKinds == Kinds \cup {k8skind(DefaultSensors[i].kind) : i \in 1..Len(DefaultSensors)}

NotBuilt ==
    [op |-> "none", registry |-> "none", namespace |-> "none", raisers |-> {},
     outcome |-> "none", exc |-> NoException, kind |-> "", name |-> "", scanners |-> <<>>]

\* "r0" is InstrumentorRegistry(), "r1" is InstrumentorK8sRegistry(K8s(kr8s))
K8sRegistryWorld ==
    InstrumentorK8sRegistry(
        [instrumentors |-> [r \in Registries |-> <<>>],
         heap |-> <<>>,
         registered |-> [r \in Registries |-> [kind \in RegisteredKinds |-> <<>>]]],
        "r1")

\* The registries are those of the world w
RegistriesAre(w) ==
    /\ instrumentors = w.instrumentors
    /\ heap = w.heap
    /\ registered = w.registered

InitRegistries == RegistriesAre(K8sRegistryWorld)

InitCluster ==
    /\ OutsideClusterIdle
    /\ InitRegistries
    /\ api \in Clusters
    /\ cache = <<>>
    /\ listed = <<>>
    /\ built = NotBuilt

SetsUp(w) ==
    /\ built = NotBuilt
    /\ Len(w.heap) <= MaxComposites
    /\ instrumentors' = w.instrumentors
    /\ heap' = w.heap
    /\ registered' = w.registered
    /\ UNCHANGED <<api, cache, listed, built, outsideCluster>>

\* registry.extend(InstrumentorK8sRegistry(K8s(kr8s)))
ExtendWithK8s == SetsUp(ExtendIn(World, "r0", "r1"))

\* The instrumentors registered beside the Kubernetes ones (prometheus.py:
\* RegistryPrometheus registers one InstrumentorK8s for "Pod#container")
Exporters == {1}

\* registry.register(k8skind(kind), instrumentor), as RegistryPrometheus
\* does for "Pod#container"
RegisterForK8sKind ==
    \E self \in Registries, kind \in {"Job", "Pod#container"}, instrumentor \in Exporters :
        SetsUp(RegisterIn(World, self, k8skind(kind), instrumentor))

\* SensorCluster(registry, k8s, cluster, namespace).children()
ClusterChildren ==
    /\ built = NotBuilt
    /\ \E registry \in Registries, namespace \in Namespaces \cup {ALL},
       raisers \in {{}} \cup {{e} : e \in Range(api)} :
        LET r == SensorClusterChildren(Facade, registry, namespace, raisers) IN
        /\ built' = [op |-> "children", registry |-> registry, namespace |-> namespace,
                     raisers |-> raisers, outcome |-> r.outcome, exc |-> r.exc,
                     kind |-> r.kind, name |-> r.name, scanners |-> r.scanners]
        /\ cache' = r.cache
        /\ listed' = r.listed
        /\ UNCHANGED <<api, instrumentors, heap, registered, outsideCluster>>

NextCluster ==
    \/ ExtendWithK8s
    \/ RegisterForK8sKind
    \/ ClusterChildren

SpecCluster == InitCluster /\ [][NextCluster]_vars

(***************************************************************************)
(* Claims about SensorCluster.children                                     *)
(***************************************************************************)
\* The objects the API holds of the kinds without '#', from the i-th kind of
\* k8s_instrumentors on, each with the kind and the class it was listed for
RECURSIVE ListedFrom(_, _)
ListedFrom(namespace, i) ==
    IF i > Len(k8s_instrumentors) THEN <<>>
    ELSE LET kind == k8s_instrumentors[i].kind
             objs == Kr8sGet(api, kind, namespace)
         IN  (IF IsSubKind(kind) THEN <<>>
              ELSE [j \in 1..Len(objs) |->
                        [kind |-> kind, cls |-> k8s_instrumentors[i].cls, obj |-> objs[j]]])
             \o ListedFrom(namespace, i + 1)

ListedObjects == ListedFrom(built.namespace, 1)

\* An UNKNOWN ConstantSensor with one ERROR log
IsUnknownConstantSensor(scanner) ==
    /\ scanner.type = "SensorConstant"
    /\ scanner.val.state = UNKNOWN
    /\ Len(scanner.val.messages) = 1
    /\ scanner.val.messages[1].severity = "ERROR"

\* C17: when the sensor of one listed object cannot be constructed,
\* children() still returns one scanner for every listed object: an UNKNOWN
\* ConstantSensor with an ERROR log in the place of that object, and the
\* Kubernetes sensor of each other object
C17_FailedObjectReplaced ==
    (/\ built.op = "children"
     /\ \E j \in 1..Len(ListedObjects) : ListedObjects[j].obj \in built.raisers)
    => /\ built.outcome = "return"
       /\ Len(built.scanners) = Len(ListedObjects)
       /\ \A j \in 1..Len(ListedObjects) :
            IF ListedObjects[j].obj \in built.raisers
            THEN IsUnknownConstantSensor(built.scanners[j])
            ELSE built.scanners[j] = SensorKubernetes(ListedObjects[j].cls, built.registry,
                                                      ListedObjects[j].obj)

\* registry.instrument(k8skind(kind), obj) for the listed objects from the
\* j-th on, chained
RECURSIVE ThroughRegistry(_, _)
ThroughRegistry(listed_, j) ==
    IF j > Len(listed_) THEN <<>>
    ELSE RegistryInstrument(World, built.registry, k8skind(listed_[j].kind),
                            listed_[j].obj, {}).scanners
         \o ThroughRegistry(listed_, j + 1)

\* The registry binds the kind of every listed object
BindsListed ==
    \A j \in 1..Len(ListedObjects) :
        DictGet(instrumentors[built.registry], k8skind(ListedObjects[j].kind)) # None

\* C18: the children of the cluster are the scanners the registry gives for
\* each listed object of the kinds without '#', every instrumentor bound to
\* the object's kind contributing
C18_ChildrenThroughRegistry ==
    (/\ built.op = "children"
     /\ built.raisers = {}
     /\ BindsListed)
    => /\ built.outcome = "return"
       /\ built.scanners = ThroughRegistry(ListedObjects, 1)

(***************************************************************************)
(* instrumentors/k8s.py: evaluate_conditions and SensorPods.children       *)
(***************************************************************************)
\* models.py: State.from_bool for True and False
from_bool(up) == IF up THEN PASSING ELSE FAILING

\* str.lower() on the texts of a condition's status and of str(bool)
Lower(s) ==
    CASE s = "True" -> "true"
      [] s = "False" -> "false"
      [] s = "Unknown" -> "unknown"
      [] OTHER -> s

\* One condition of an object's status; "" stands for a message or a reason
\* that is absent
Condition(type, status_, message, reason) ==
    [type |-> type, status |-> status_, message |-> message, reason |-> reason]

\* condition_is comparing the status as it is written
ConditionIsExact(condition, passing_if) ==
    from_bool(condition.status = (IF passing_if THEN "True" ELSE "False"))

condition_is(condition, passing_if) ==
    from_bool(Lower(condition.status) = Lower(IF passing_if THEN "True" ELSE "False"))

\* The sensor evaluate_condition appends for one condition that is evaluated
ConditionSensor(condition, state) ==
    LET maybe_message == IF condition.message # "" THEN condition.message
                         ELSE condition.reason
        loglevel == IF state = PASSING THEN "INFO" ELSE "WARN"
        logs == IF maybe_message # "" THEN <<Log(maybe_message, loglevel)>> ELSE <<>>
    IN  SensorConstant(condition.type, Status(state, logs))

\* evaluate_conditions(passing_if_true, passing_if_false)(conditions)
RECURSIVE evaluate_conditions(_, _, _)
evaluate_conditions(passing_if_true, passing_if_false, conditions) ==
    IF conditions = <<>> THEN <<>>
    ELSE LET condition == Head(conditions)
             rest == evaluate_conditions(passing_if_true, passing_if_false, Tail(conditions))
         IN  IF condition.type \in passing_if_true
             THEN <<ConditionSensor(condition, condition_is(condition, TRUE))>> \o rest
             ELSE IF condition.type \in passing_if_false
             THEN <<ConditionSensor(condition, condition_is(condition, FALSE))>> \o rest
             ELSE rest

\* What one arm of `match self.pod.status.phase` binds; no arm matches a
\* phase that is none of the five, and nothing is bound
Matched(pod_sensors, phase_sensor) ==
    [matched |-> TRUE, pod_sensors |-> pod_sensors, phase_sensor |-> phase_sensor]

Unbound == [matched |-> FALSE, pod_sensors |-> <<>>, phase_sensor |-> <<>>]

\* The match with the states of Pending and Failed exchanged
MatchPhaseExchanged(pod) ==
    LET conditions == pod.conditions
        all == {"Initialized", "Ready", "ContainersReady", "PodScheduled"}
    IN  CASE pod.phase = "Pending" ->
                Matched(evaluate_conditions({"PodScheduled"}, {}, conditions),
                        SensorConstant("phase", Status(FAILING, <<>>)))
          [] pod.phase = "Running" ->
                Matched(evaluate_conditions(all, {}, conditions),
                        SensorConstant("phase", Status(PASSING, <<>>)))
          [] pod.phase = "Succeeded" ->
                Matched(evaluate_conditions({"Initialized", "PodScheduled"},
                                            {"Ready", "ContainersReady"}, conditions),
                        SensorConstant("phase", Status(PASSING, <<>>)))
          [] pod.phase = "Failed" ->
                Matched(evaluate_conditions(all, {}, conditions),
                        SensorConstant("phase", Status(UNKNOWN, <<>>)))
          [] pod.phase = "Unknown" ->
                Matched(<<>>, SensorConstant("phase", Status(UNKNOWN, <<>>)))
          [] OTHER -> Unbound

\* match self.pod.status.phase
MatchPhase(pod) ==
    LET conditions == pod.conditions
        all == {"Initialized", "Ready", "ContainersReady", "PodScheduled"}
    IN  CASE pod.phase = "Pending" ->
                Matched(evaluate_conditions({"PodScheduled"}, {}, conditions),
                        SensorConstant("phase", Status(UNKNOWN, <<>>)))
          [] pod.phase = "Running" ->
                Matched(evaluate_conditions(all, {}, conditions),
                        SensorConstant("phase", Status(PASSING, <<>>)))
          [] pod.phase = "Succeeded" ->
                Matched(evaluate_conditions({"Initialized", "PodScheduled"},
                                            {"Ready", "ContainersReady"}, conditions),
                        SensorConstant("phase", Status(PASSING, <<>>)))
          [] pod.phase = "Failed" ->
                Matched(evaluate_conditions(all, {}, conditions),
                        SensorConstant("phase", Status(FAILING, <<>>)))
          [] pod.phase = "Unknown" ->
                Matched(<<>>, SensorConstant("phase", Status(UNKNOWN, <<>>)))
          [] OTHER -> Unbound

\* flatten(self.registry.instrument(kind, **kwargs) for kwargs in each): the
\* first instrument() that raises ends it
RECURSIVE FlattenInstrumented(_, _, _, _)
FlattenInstrumented(w, registry, kind, each) ==
    IF each = <<>> THEN [outcome |-> "return", exc |-> NoException, scanners |-> <<>>]
    ELSE LET first == RegistryInstrument(w, registry, kind, Head(each), {}) IN
         IF first.outcome = "raise"
         THEN [outcome |-> "raise", exc |-> first.exc, scanners |-> <<>>]
         ELSE LET rest == FlattenInstrumented(w, registry, kind, Tail(each)) IN
              [rest EXCEPT !.scanners = IF rest.outcome = "raise" THEN <<>>
                                        ELSE first.scanners \o @]

UnboundLocalError == "UnboundLocalError"

PodChildren(outcome, exc, list) == [outcome |-> outcome, exc |-> exc, scanners |-> list]

\* SensorPods(registry, k8s, pod).children()
SensorPodsChildren(w, registry, pod) ==
    LET bound == MatchPhase(pod)
        containers ==
            FlattenInstrumented(w, registry, k8skind("Pod#container"),
                [i \in 1..Len(pod.containerStatuses.items) |->
                    [namespace |-> pod.namespace, pod_name |-> pod.name,
                     container_status |-> pod.containerStatuses.items[i]]])
        container_sensor ==
            IF pod.containerStatuses.present
            THEN SystemAll("containers", containers.scanners)
            ELSE SensorConstant("containers", Status(FAILING, <<>>))
        volumes ==
            FlattenInstrumented(w, registry, k8skind("Pod#volume"),
                [i \in 1..Len(pod.volumes) |->
                    [pod |-> pod, volume_name |-> pod.volumes[i], volume |-> pod.volumes[i]]])
    IN  IF pod.containerStatuses.present /\ containers.outcome = "raise"
        THEN PodChildren("raise", containers.exc, <<>>)
        ELSE IF ~bound.matched
        THEN PodChildren("raise", UnboundLocalError, <<>>)
        ELSE IF volumes.outcome = "raise"
        THEN PodChildren("raise", volumes.exc, <<>>)
        ELSE PodChildren("return", NoException,
                         bound.pod_sensors
                         \o <<bound.phase_sensor, container_sensor,
                              SystemAll("volumes", volumes.scanners)>>)

(***************************************************************************)
(* SpecPod: the children of one pod are asked for, with the registry of    *)
(* InstrumentorK8sRegistry ("r1") or an empty one ("r0")                    *)
(***************************************************************************)
\* The five phases of a pod, and "" for a status without one
Phases == {"Pending", "Running", "Succeeded", "Failed", "Unknown", ""}

Conditions ==
    { Condition(type, status_, text[1], text[2]) :
        type \in {"PodScheduled", "Ready"},
        status_ \in {"True", "False"},
        text \in {<<"", "">>, <<"m", "">>, <<"", "r">>} }

ContainerStatuses(present, items) == [present |-> present, items |-> items]

Pod(name, namespace, phase, conditions, containerStatuses, volumes) ==
    [name |-> name, namespace |-> namespace, phase |-> phase,
     conditions |-> conditions, containerStatuses |-> containerStatuses,
     volumes |-> volumes]

Pods ==
    { Pod("x", "a", phase, conditions, containerStatuses, volumes) :
        phase \in Phases,
        conditions \in SeqsUpTo(Conditions, MaxConditions),
        containerStatuses \in {ContainerStatuses(FALSE, <<>>), ContainerStatuses(TRUE, <<"c">>)},
        volumes \in {<<>>, <<"v">>} }

InitPod ==
    /\ InitCluster
    /\ api = <<>>

\* SensorPods(registry, k8s, pod).children()
PodsChildren ==
    /\ built = NotBuilt
    /\ \E registry \in Registries, pod \in Pods :
        LET r == SensorPodsChildren(World, registry, pod) IN
        /\ built' = [op |-> "pod.children", registry |-> registry, pod |-> pod,
                     outcome |-> r.outcome, exc |-> r.exc, scanners |-> r.scanners]
        /\ UNCHANGED <<api, cache, listed, instrumentors, heap, registered, outsideCluster>>

NextPod == PodsChildren

SpecPod == InitPod /\ [][NextPod]_vars

(***************************************************************************)
(* Claims about SensorPods.children                                        *)
(***************************************************************************)
\* The state the phase sensor is to have
PhaseState(phase) ==
    CASE phase \in {"Pending", "Unknown"} -> UNKNOWN
      [] phase \in {"Running", "Succeeded"} -> PASSING
      [] phase = "Failed" -> FAILING

PhaseSensors == {i \in 1..Len(built.scanners) : built.scanners[i].name = "phase"}

\* C19: the children of a pod in one of the five phases hold exactly one
\* sensor named "phase", UNKNOWN for Pending and Unknown, PASSING for Running
\* and Succeeded, FAILING for Failed; and children() returns them whenever the
\* registry is the one InstrumentorK8sRegistry sets up
C19_PhaseSensor ==
    (/\ built.op = "pod.children"
     /\ built.pod.phase \in Phases \ {""})
    => /\ built.registry = "r1" => built.outcome = "return"
       /\ built.outcome = "return" =>
            /\ Cardinality(PhaseSensors) = 1
            /\ \A i \in PhaseSensors :
                /\ built.scanners[i].type = "SensorConstant"
                /\ built.scanners[i].val.state = PhaseState(built.pod.phase)

\* a Pending pod that is not scheduled, with a Ready condition that Pending
\* leaves out, a container and a volume: PodScheduled, phase, containers,
\* volumes
C19_Witness ==
    /\ built.op = "pod.children"
    /\ built.registry = "r1"
    /\ built.pod.phase = "Pending"
    /\ built.pod.conditions = <<Condition("Ready", "False", "", "r"),
                                Condition("PodScheduled", "False", "m", "")>>
    /\ built.pod.containerStatuses.present
    /\ built.pod.volumes # <<>>
    /\ built.outcome = "return"
    /\ Len(built.scanners) = 4
    /\ built.scanners[1] = SensorConstant("PodScheduled", Status(FAILING, <<Log("m", "WARN")>>))
    /\ built.scanners[2] = SensorConstant("phase", Status(UNKNOWN, <<>>))

(***************************************************************************)
(* SpecK8sLive: the facade of SpecK8s over a cluster whose objects come    *)
(* and go between the calls                                                *)
(***************************************************************************)
\* The API server creates or deletes objects while the facade is in use
ClusterChanges ==
    /\ answer.count < MaxCalls
    /\ \E cluster \in Clusters :
        /\ cluster # api
        /\ api' = cluster
    /\ UNCHANGED <<cache, listed, answer, outsideK8s>>

NextK8sLive ==
    \/ NextK8s
    \/ ClusterChanges

SpecK8sLive == InitK8s /\ [][NextK8sLive]_vars

\* C21: a mapping the cache held for a key (kind, namespace) before a call is
\* the mapping it holds for that key after the call: nothing is added to it,
\* removed from it or overwritten in it
C21_CacheEntriesFrozen ==
    answer.op # "none" =>
        \A i \in 1..Len(answer.cacheBefore) :
            /\ HasKey(cache, answer.cacheBefore[i].key)
            /\ Value(cache, answer.cacheBefore[i].key) = answer.cacheBefore[i].value

(***************************************************************************)
(* SpecConditions: evaluate_conditions(passing_if_true, passing_if_false)  *)
(* is applied to the conditions of one status                              *)
(***************************************************************************)
\* The two sets the callers pass, and one pair that shares a type
PassingSets ==
    { <<{"Ready"}, {}>>, <<{}, {"Ready"}>>,
      <<{"Ready"}, {"PodScheduled"}>>, <<{"Ready"}, {"Ready"}>> }

StatusConditions ==
    { Condition(type, status_, text[1], text[2]) :
        type \in {"PodScheduled", "Ready"},
        status_ \in {"True", "true", "False", "false", "Unknown"},
        text \in {<<"", "">>, <<"m", "r">>, <<"", "r">>} }

InitConditions ==
    /\ OutsideClusterIdle
    /\ RegistryIdle
    /\ api = <<>>
    /\ cache = <<>>
    /\ listed = <<>>
    /\ built = NotBuilt

\* evaluate_conditions(passing_if_true, passing_if_false)(conditions)
EvaluateConditions ==
    /\ built = NotBuilt
    /\ \E sets \in PassingSets, conditions \in SeqsUpTo(StatusConditions, MaxConditions) :
        built' = [op |-> "evaluate_conditions",
                  passing_if_true |-> sets[1], passing_if_false |-> sets[2],
                  conditions |-> conditions,
                  sensors |-> evaluate_conditions(sets[1], sets[2], conditions)]
    /\ UNCHANGED <<api, cache, listed, instrumentors, heap, registered, outsideCluster>>

NextConditions == EvaluateConditions

SpecConditions == InitConditions /\ [][NextConditions]_vars

(***************************************************************************)
(* Claims about evaluate_conditions                                        *)
(***************************************************************************)
\* The conditions that are evaluated, in input order
Evaluated ==
    SelectSeq(built.conditions,
              LAMBDA c : c.type \in built.passing_if_true \cup built.passing_if_false)

IsTrue(text) == text \in {"True", "true"}
IsFalse(text) == text \in {"False", "false"}

\* The log a sensor is to carry for its condition and its state
ConditionLogs(c, state) ==
    LET severity == IF state = PASSING THEN "INFO" ELSE "WARN" IN
    IF c.message # "" THEN <<Log(c.message, severity)>>
    ELSE IF c.reason # "" THEN <<Log(c.reason, severity)>>
    ELSE <<>>

\* One sensor per evaluated condition, in order, named after its type, with
\* the state `expected` gives and the log that goes with it
SensorsAre(expected(_)) ==
    /\ Len(built.sensors) = Len(Evaluated)
    /\ \A k \in 1..Len(Evaluated) :
        /\ built.sensors[k].type = "SensorConstant"
        /\ built.sensors[k].name = Evaluated[k].type
        /\ built.sensors[k].val.state = expected(Evaluated[k])
        /\ built.sensors[k].val.state \in {PASSING, FAILING}
        /\ built.sensors[k].val.messages = ConditionLogs(Evaluated[k], expected(Evaluated[k]))

\* C22 as stated: a passingIfTrue type passes iff its status is "True"
\* ignoring case, a passingIfFalse type iff its status is exactly "False"
C22_FalseComparedExactly ==
    built.op = "evaluate_conditions" =>
        SensorsAre(LAMBDA c :
            IF c.type \in built.passing_if_true
            THEN (IF IsTrue(c.status) THEN PASSING ELSE FAILING)
            ELSE (IF c.status = "False" THEN PASSING ELSE FAILING))

\* C22: one ConstantSensor per condition whose type is in either set, in
\* input order and none for another type; PASSING iff the status is "True"
\* for a passingIfTrue type, "False" for a passingIfFalse type, ignoring case
\* in both, FAILING otherwise and never UNKNOWN; the log is the message, or
\* else the reason, INFO when PASSING and WARN otherwise
C22_ConditionsEvaluated ==
    built.op = "evaluate_conditions" =>
        SensorsAre(LAMBDA c :
            IF c.type \in built.passing_if_true
            THEN (IF IsTrue(c.status) THEN PASSING ELSE FAILING)
            ELSE (IF IsFalse(c.status) THEN PASSING ELSE FAILING))

\* Ready is to be false and PodScheduled is not looked at: the one sensor is
\* for Ready, whose "false" passes, with the message and not the reason, at INFO
C22_Witness ==
    /\ built.op = "evaluate_conditions"
    /\ built.passing_if_true = {}
    /\ built.passing_if_false = {"Ready"}
    /\ built.conditions = <<Condition("PodScheduled", "True", "", "r"),
                            Condition("Ready", "false", "m", "r")>>
    /\ built.sensors = <<SensorConstant("Ready", Status(PASSING, <<Log("m", "INFO")>>))>>

(***************************************************************************)
(* instrumentors/k8s.py: SensorPods.Volume and SensorConfigmaps            *)
(***************************************************************************)
AttributeError == "AttributeError"

\* One entry of pod.spec.volumes: its name, the key of its source, the name
\* the source refers to (configMap.name, persistentVolumeClaim.claimName) and
\* the sources of a projected volume
Volume(name, source, ref, sources) ==
    [name |-> name, source |-> source, ref |-> ref, sources |-> sources]

\* What a method of a Kubernetes scanner returns or raises, with the facade
\* as the method leaves it
Reply(outcome, exc, value, k) ==
    [outcome |-> outcome, exc |-> exc, value |-> value, cache |-> k.cache, listed |-> k.listed]

\* [*self.registry.instrument(kind, **kwargs)], or the exception it raises
InstrumentedOr(w, k, registry, kind, params, Wrap(_)) ==
    LET r == RegistryInstrument(w, registry, kind, params, {}) IN
    IF r.outcome = "raise" THEN Reply("raise", r.exc, <<>>, k)
    ELSE Reply("return", NoException, Wrap(r.scanners), k)

\* SensorPods.Volume(registry, k8s, pod, volume_name, volume).children()
VolumeChildren(w, k, registry, pod, volume_name, volume) ==
    CASE volume.source = "configMap" ->
            LET configmap == get(k, "ConfigMap", pod.namespace, volume.ref) IN
            InstrumentedOr(w, configmap, registry, k8skind("ConfigMap"),
                           [configmap |-> configmap.returned],
                           LAMBDA list : <<SystemAll("configmap", list)>>)
      [] volume.source = "hostPath" ->
            Reply("return", NoException,
                  <<SensorConstant("hostMount " \o volume_name, Status(PASSING, <<>>))>>, k)
      [] volume.source = "projected" ->
            LET each == FlattenInstrumented(w, registry, k8skind("Pod#volume"),
                            [i \in 1..Len(volume.sources) |->
                                [pod |-> pod, volume_name |-> ToString(i - 1),
                                 volume |-> volume.sources[i]]])
            IN  IF each.outcome = "raise" THEN Reply("raise", each.exc, <<>>, k)
                ELSE Reply("return", NoException,
                           <<SystemAll("projected volume", each.scanners)>>, k)
      [] volume.source = "downwardAPI" ->
            Reply("return", NoException,
                  <<SensorConstant("downwardAPI", Status(PASSING, <<>>))>>, k)
      [] volume.source = "serviceAccountToken" ->
            Reply("return", NoException,
                  <<SensorConstant("serviceAccountToken", Status(PASSING, <<>>))>>, k)
      [] volume.source = "persistentVolumeClaim" ->
            LET pvc == get(k, "PersistentVolumeClaim", pod.namespace, volume.ref) IN
            InstrumentedOr(w, pvc, registry, k8skind("PersistentVolumeClaim"),
                           [pvc |-> pvc.returned], LAMBDA list : list)
      [] OTHER ->
            Reply("return", NoException,
                  <<SensorConstant("volume " \o volume_name \o " cannot be instrumented",
                                   Status(PASSING, <<>>))>>, k)

\* self.configmap.name and .namespace of a SensorConfigmaps: the configmap is
\* an object, or None (<<>>) which has neither
SensorConfigmapsName(k, sensor) ==
    IF sensor.obj.configmap = <<>> THEN Reply("raise", AttributeError, "", k)
    ELSE Reply("return", NoException,
               "configmap " \o sensor.obj.configmap[1].name \o " exists", k)

SensorConfigmapsStatus(k, sensor) ==
    IF sensor.obj.configmap = <<>> THEN Reply("raise", AttributeError, Status(UNKNOWN, <<>>), k)
    ELSE LET there == exists(k, "ConfigMap", sensor.obj.configmap[1].namespace,
                             sensor.obj.configmap[1].name) IN
         Reply("return", NoException, Status(from_bool(there.returned), <<>>), there)

SensorConfigmapsChildren(k, sensor) == Reply("return", NoException, <<>>, k)

(***************************************************************************)
(* SpecVolume: the children of one volume of a pod are asked for, and then *)
(* the name, status or children of the sensor of its ConfigMap             *)
(***************************************************************************)
VolumeUniverse ==
    << APIObject("ConfigMap", "a", "cm", <<>>),
       APIObject("ConfigMap", "b", "cm", <<>>),
       APIObject("PersistentVolumeClaim", "a", "claim", <<>>) >>

VolumeClusters ==
    {SelectSeq(VolumeUniverse, LAMBDA e : e \in held) : held \in SUBSET Range(VolumeUniverse)}

Volumes ==
    { Volume("v", "configMap", "cm", <<>>),
      Volume("v", "hostPath", "", <<>>),
      Volume("v", "projected", "", <<Volume("", "configMap", "cm", <<>>),
                                     Volume("", "serviceAccountToken", "", <<>>)>>),
      Volume("v", "downwardAPI", "", <<>>),
      Volume("v", "serviceAccountToken", "", <<>>),
      Volume("v", "persistentVolumeClaim", "claim", <<>>),
      Volume("v", "emptyDir", "", <<>>) }

NotAsked == [asked |-> "none", outcome |-> "none", exc |-> NoException]

InitVolume ==
    /\ OutsideClusterIdle
    /\ InitRegistries
    /\ api \in VolumeClusters
    /\ cache = <<>>
    /\ listed = <<>>
    /\ built = NotBuilt

\* SensorPods.Volume(registry, k8s, pod, volume["name"], volume).children()
VolumesChildren ==
    /\ built = NotBuilt
    /\ \E registry \in Registries, namespace \in Namespaces, volume \in Volumes :
        LET pod == Pod("x", namespace, "Running", <<>>, ContainerStatuses(FALSE, <<>>),
                       <<volume>>)
            r == VolumeChildren(World, Facade, registry, pod, volume.name, volume)
        IN  /\ built' = [op |-> "volume.children", registry |-> registry, pod |-> pod,
                         volume |-> volume, outcome |-> r.outcome, exc |-> r.exc,
                         scanners |-> r.value, sensor |-> NotAsked]
            /\ cache' = r.cache
            /\ listed' = r.listed
    /\ UNCHANGED <<api, instrumentors, heap, registered, outsideCluster>>

\* The SensorConfigmaps under the "configmap" system of the volume's children
ConfigmapSensor == built.scanners[1].scanners[1]

Asks(asked, r) ==
    /\ built.op = "volume.children"
    /\ built.volume.source = "configMap"
    /\ built.outcome = "return"
    /\ built.sensor = NotAsked
    /\ built.scanners[1].scanners # <<>>
    /\ ConfigmapSensor.type = "SensorConfigmaps"
    /\ built' = [built EXCEPT !.sensor = [asked |-> asked, outcome |-> r.outcome,
                                         exc |-> r.exc, value |-> r.value]]
    /\ cache' = r.cache
    /\ listed' = r.listed
    /\ UNCHANGED <<api, instrumentors, heap, registered, outsideCluster>>

\* sensor.name
ConfigmapName == Asks("name", SensorConfigmapsName(Facade, ConfigmapSensor))

\* sensor.status()
ConfigmapStatus == Asks("status", SensorConfigmapsStatus(Facade, ConfigmapSensor))

\* sensor.children()
ConfigmapChildren == Asks("children", SensorConfigmapsChildren(Facade, ConfigmapSensor))

NextVolume ==
    \/ VolumesChildren
    \/ ConfigmapName
    \/ ConfigmapStatus
    \/ ConfigmapChildren

SpecVolume == InitVolume /\ [][NextVolume]_vars

(***************************************************************************)
(* Claims about the volumes of a pod                                       *)
(***************************************************************************)
\* The ConfigMap the volume names is in the pod's namespace
ConfigMapThere ==
    \E i \in 1..Len(api) :
        /\ api[i].kind = "ConfigMap"
        /\ api[i].namespace = built.pod.namespace
        /\ api[i].name = built.volume.ref

\* C23: the children of a configMap volume are one AllOf over one ConfigMap
\* existence sensor; its name is "configmap <name> exists", its status() is
\* PASSING when the ConfigMap is in the pod's namespace and FAILING when it is
\* not, its children() are none, and none of the three raises
C23_ConfigMapExistence ==
    (/\ built.op = "volume.children"
     /\ built.volume.source = "configMap"
     /\ built.registry = "r1")
    => /\ built.outcome = "return"
       /\ Len(built.scanners) = 1
       /\ built.scanners[1].type = "SystemAll"
       /\ Len(built.scanners[1].scanners) = 1
       /\ ConfigmapSensor.type = "SensorConfigmaps"
       /\ built.sensor.asked # "none" => built.sensor.outcome = "return"
       /\ built.sensor.asked = "name" =>
            built.sensor.value = "configmap " \o built.volume.ref \o " exists"
       /\ built.sensor.asked = "status" =>
            built.sensor.value.state = (IF ConfigMapThere THEN PASSING ELSE FAILING)
       /\ built.sensor.asked = "children" => built.sensor.value = <<>>

(***************************************************************************)
(* instrumentors/k8s.py: K8s.children and SensorServices                   *)
(***************************************************************************)
\* An object with labels: e.kind, e.namespace, e.name, e.metadata.labels
Labelled(kind, namespace, name, labels) ==
    [kind |-> kind, namespace |-> namespace, name |-> name, ownerReferences |-> <<>>,
     labels |-> labels]

\* K8s.children(kind, namespace, label_selector): never cached; the API
\* answers with the objects that bear every label of the selector
k8s_children(k, kind, namespace, label_selector) ==
    SelectSeq(Kr8sGet(k.cluster, kind, namespace), LAMBDA e : label_selector \subseteq e.labels)

\* service.spec.selector, when the spec has one
Selector(present, labels) == [present |-> present, labels |-> labels]

Service(namespace, name, selector) ==
    [kind |-> "Service", namespace |-> namespace, name |-> name, ownerReferences |-> <<>>,
     selector |-> selector]

\* SensorServices(registry, k8s, service).children()
SensorServicesChildren(w, k, registry, service) ==
    IF service.selector.present
    THEN LET endpoint_pods == k8s_children(k, "Pod", service.namespace, service.selector.labels)
             each == FlattenInstrumented(w, registry, k8skind("Pod"),
                        [i \in 1..Len(endpoint_pods) |-> [pod |-> endpoint_pods[i]]])
         IN  IF each.outcome = "raise" THEN Reply("raise", each.exc, <<>>, k)
             ELSE Reply("return", NoException,
                        <<SystemAll(service.name, <<SystemAny("enpoints", each.scanners)>>)>>, k)
    ELSE Reply("return", NoException,
               <<SystemAll(service.name,
                     <<SensorConstant("endpoints",
                          Status(PASSING, <<Log("Service does not use selectors", "INFO")>>))>>)>>,
               k)

(***************************************************************************)
(* SpecService: the children of one service are asked for                  *)
(***************************************************************************)
PodUniverse ==
    << Labelled("Pod", "a", "p1", {"app=web"}),
       Labelled("Pod", "a", "p2", {"app=db"}),
       Labelled("Pod", "b", "p3", {"app=web"}) >>

PodClusters ==
    {SelectSeq(PodUniverse, LAMBDA e : e \in held) : held \in SUBSET Range(PodUniverse)}

Selectors ==
    {Selector(FALSE, {}), Selector(TRUE, {}), Selector(TRUE, {"app=web"}),
     Selector(TRUE, {"app=db"})}

InitService ==
    /\ OutsideClusterIdle
    /\ InitRegistries
    /\ api \in PodClusters
    /\ cache = <<>>
    /\ listed = <<>>
    /\ built = NotBuilt

\* SensorServices(registry, k8s, service).children()
ServicesChildren ==
    /\ built = NotBuilt
    /\ \E registry \in Registries, namespace \in Namespaces, selector \in Selectors :
        LET service == Service(namespace, "svc", selector)
            r == SensorServicesChildren(World, Facade, registry, service)
        IN  /\ built' = [op |-> "service.children", registry |-> registry,
                         service |-> service, outcome |-> r.outcome, exc |-> r.exc,
                         scanners |-> r.value]
            /\ cache' = r.cache
            /\ listed' = r.listed
    /\ UNCHANGED <<api, instrumentors, heap, registered, outsideCluster>>

NextService == ServicesChildren

SpecService == InitService /\ [][NextService]_vars

(***************************************************************************)
(* Claims about SensorServices                                             *)
(***************************************************************************)
\* The pods of the service's namespace that bear the selector's labels
Backing ==
    SelectSeq(api, LAMBDA e : /\ e.kind = "Pod"
                              /\ e.namespace = built.service.namespace
                              /\ built.service.selector.labels \subseteq e.labels)

\* C24: a service with a selector is an AnyOf named "endpoints" over one Pod
\* scanner for each pod that matches the selector; a service without one is
\* a PASSING constant with the INFO log "Service does not use selectors"
C24_EndpointsAnyOf ==
    (/\ built.op = "service.children"
     /\ built.registry = "r1")
    => /\ built.outcome = "return"
       /\ Len(built.scanners) = 1
       /\ Len(built.scanners[1].scanners) = 1
       /\ LET endpoints == built.scanners[1].scanners[1] IN
          IF built.service.selector.present
          THEN /\ endpoints.type = "SystemAny"
               /\ endpoints.name = "endpoints"
               /\ endpoints.scanners =
                    [i \in 1..Len(Backing) |->
                        SensorKubernetes("SensorPods", built.registry, [pod |-> Backing[i]])]
          ELSE endpoints = SensorConstant("endpoints",
                    Status(PASSING, <<Log("Service does not use selectors", "INFO")>>))

(***************************************************************************)
(* instrumentors/k8s.py: SensorIngresses.Path                              *)
(***************************************************************************)
\* path.backend: "service" with backend.service.name, "resource", or another
Backend(key, name) == [key |-> key, name |-> name]

\* One entry of rule.http.paths: path.path and path.backend
IngressPath(path, backend) == [path |-> path, backend |-> backend]

\* Path.status() forwarding the AnyOf of the service's scanners
PathStatusAnyOf(w, k, registry, namespace, path, health) ==
    LET backend == path.backend IN
    CASE backend.key = "service" ->
            LET service == get(k, "Service", namespace, backend.name) IN
            IF service.returned = <<>>
            THEN Reply("return", NoException,
                       Status(FAILING, <<Log("service " \o backend.name \o " exist", "ERROR")>>),
                       service)
            ELSE LET r == RegistryInstrument(w, registry, k8skind("Service"),
                                             [service |-> service.returned[1]], {})
                     all == SystemAnyStatus(health)
                 IN  IF r.outcome = "raise"
                     THEN Reply("raise", r.exc, Status(UNKNOWN, <<>>), service)
                     ELSE IF all.outcome = "raise"
                     THEN Reply("raise", all.exc, Status(UNKNOWN, <<>>), service)
                     ELSE Reply("return", NoException, Status(all.state, <<>>), service)
      [] backend.key = "resource" ->
            Reply("return", NoException, Status(PASSING, <<>>), k)
      [] OTHER ->
            Reply("return", NoException,
                  Status(PASSING, <<Log("path " \o path.path \o " cannot be instrumented",
                                        "INFO")>>), k)

\* SensorIngresses.Path(registry, k8s, name, namespace, path).status(), while
\* the status() of the i-th scanner the registry returns for the service
\* answers health[i]
PathStatus(w, k, registry, namespace, path, health) ==
    LET backend == path.backend IN
    CASE backend.key = "service" ->
            LET service == get(k, "Service", namespace, backend.name) IN
            IF service.returned = <<>>
            THEN Reply("return", NoException,
                       Status(FAILING, <<Log("service " \o backend.name \o " exist", "ERROR")>>),
                       service)
            ELSE LET r == RegistryInstrument(w, registry, k8skind("Service"),
                                             [service |-> service.returned[1]], {})
                     all == SystemAllStatus(health)
                 IN  IF r.outcome = "raise"
                     THEN Reply("raise", r.exc, Status(UNKNOWN, <<>>), service)
                     ELSE IF all.outcome = "raise"
                     THEN Reply("raise", all.exc, Status(UNKNOWN, <<>>), service)
                     ELSE Reply("return", NoException, Status(all.state, <<>>), service)
      [] backend.key = "resource" ->
            Reply("return", NoException, Status(PASSING, <<>>), k)
      [] OTHER ->
            Reply("return", NoException,
                  Status(PASSING, <<Log("path " \o path.path \o " cannot be instrumented",
                                        "INFO")>>), k)

\* The scanners whose status() the path asks for
PathScanners(w, k, registry, namespace, path) ==
    LET service == get(k, "Service", namespace, path.backend.name)
        r == RegistryInstrument(w, registry, k8skind("Service"),
                                [service |-> service.returned], {})
    IN  IF path.backend.key = "service" /\ service.returned # <<>> /\ r.outcome = "return"
        THEN r.scanners ELSE <<>>

(***************************************************************************)
(* SpecIngress: the status of one path of an ingress is asked for; "r1" is *)
(* InstrumentorK8sRegistry and "r0" may bind Service to an instrumentor of *)
(* the caller's; the facade may have listed the services before            *)
(***************************************************************************)
ServiceUniverse ==
    << Service("a", "svc", Selector(FALSE, {})),
       Service("b", "svc", Selector(TRUE, {"app=web"})) >>

ServiceClusters ==
    {SelectSeq(ServiceUniverse, LAMBDA e : e \in held) : held \in SUBSET Range(ServiceUniverse)}

IngressPaths ==
    { IngressPath("/", Backend("service", "svc")),
      IngressPath("/", Backend("resource", "")),
      IngressPath("/", Backend("other", "")) }

InitIngress ==
    /\ OutsideClusterIdle
    /\ InitRegistries
    /\ api \in ServiceClusters
    /\ cache = <<>>
    /\ listed = <<>>
    /\ built = NotBuilt

\* registry.register(k8skind("Service"), instrumentor) on the empty registry
RegisterForService ==
    /\ listed = <<>>
    /\ instrumentors["r0"] = <<>>
    /\ \E instrumentor \in Instrumentors :
        SetsUp(RegisterIn(World, "r0", k8skind("Service"), instrumentor))

\* k8s.get_all("Service", namespace), as a scanner visited earlier does
ListsServices ==
    /\ built = NotBuilt
    /\ listed = <<>>
    /\ \E namespace \in Namespaces \cup {ALL} :
        LET r == get_all(Facade, "Service", namespace) IN
        /\ cache' = r.cache
        /\ listed' = r.listed
    /\ UNCHANGED <<api, built, instrumentors, heap, registered, outsideCluster>>

\* SensorIngresses.Path(registry, k8s, name, namespace, path).status()
PathsStatus ==
    /\ built = NotBuilt
    /\ \E registry \in Registries, namespace \in Namespaces, path \in IngressPaths,
          health \in SeqsUpTo(Child, MaxYield) :
        LET r == PathStatus(World, Facade, registry, namespace, path, health) IN
        /\ Len(health) = Len(PathScanners(World, Facade, registry, namespace, path))
        /\ built' = [op |-> "path.status", registry |-> registry, namespace |-> namespace,
                     path |-> path, health |-> health,
                     outcome |-> r.outcome, exc |-> r.exc, status |-> r.value]
        /\ cache' = r.cache
        /\ listed' = r.listed
    /\ UNCHANGED <<api, instrumentors, heap, registered, outsideCluster>>

NextIngress ==
    \/ RegisterForService
    \/ ListsServices
    \/ PathsStatus

SpecIngress == InitIngress /\ [][NextIngress]_vars

(***************************************************************************)
(* Claims about SensorIngresses.Path                                       *)
(***************************************************************************)
\* The service the path names is in the ingress's namespace
ServiceThere ==
    \E i \in 1..Len(api) :
        /\ api[i].kind = "Service"
        /\ api[i].namespace = built.namespace
        /\ api[i].name = built.path.backend.name

\* The AllOf of the states the scanners answer with
RECURSIVE AllOfStates(_)
AllOfStates(states) ==
    IF Len(states) = 1 THEN states[1]
    ELSE LeastFavourable(states[1], AllOfStates(Tail(states)))

Answering == built.health # <<>> /\ \A i \in 1..Len(built.health) : built.health[i] # RAISES

\* C25: the status() of a path with a service backend is FAILING with the one
\* ERROR log "service <name> exist" when the service is not in the ingress's
\* namespace, and otherwise has the AllOf state of the scanners the registry
\* returns for the service (when each of them answers); a resource backend
\* gives PASSING, another backend PASSING with an INFO log
C25_PathStatus ==
    built.op = "path.status" =>
        CASE built.path.backend.key = "service" /\ ~ServiceThere ->
                /\ built.outcome = "return"
                /\ built.status = Status(FAILING,
                        <<Log("service " \o built.path.backend.name \o " exist", "ERROR")>>)
          [] built.path.backend.key = "service" /\ ServiceThere ->
                Answering =>
                    /\ built.outcome = "return"
                    /\ built.status.state = AllOfStates(built.health)
          [] built.path.backend.key = "resource" ->
                /\ built.outcome = "return"
                /\ built.status = Status(PASSING, <<>>)
          [] OTHER ->
                /\ built.outcome = "return"
                /\ built.status.state = PASSING
                /\ Len(built.status.messages) = 1
                /\ built.status.messages[1].severity = "INFO"

\* the service is there, the registry returns two scanners for it, one
\* PASSING and one UNKNOWN, and the path is UNKNOWN
C25_Witness ==
    /\ built.op = "path.status"
    /\ built.registry = "r0"
    /\ built.path.backend.key = "service"
    /\ ServiceThere
    /\ listed = <<<<"Service", ALL>>>>
    /\ built.health = <<PASSING, UNKNOWN>>
    /\ built.outcome = "return"
    /\ built.status.state = UNKNOWN

(***************************************************************************)
(* instrumentors/k8s.py: SensorCronJob                                     *)
(***************************************************************************)
\* A CronJob: cronjob.kind, .version, .namespace, .name
CronJob(namespace, name) ==
    [kind |-> "CronJob", version |-> "batch/v1", namespace |-> namespace, name |-> name,
     ownerReferences |-> <<>>]

\* SensorCronJob(registry, k8s, cronjob).children()
SensorCronJobChildren(w, k, registry, cronjob) ==
    LET jobs == owned(k, "Job", cronjob.namespace, cronjob)
        each == FlattenInstrumented(w, registry, k8skind("Job"),
                    [i \in 1..Len(jobs.returned) |-> [job |-> jobs.returned[i]]])
    IN  IF each.outcome = "raise" THEN Reply("raise", each.exc, <<>>, jobs)
        ELSE Reply("return", NoException, <<SystemAll("jobs", each.scanners)>>, jobs)

(***************************************************************************)
(* SpecCronJob: the children of one CronJob are asked for, on a facade     *)
(* that may have been asked for jobs before                                *)
(***************************************************************************)
JobUniverse ==
    << APIObject("Job", "a", "j1", <<OwnerRef("CronJob", "batch/v1", "c")>>),
       APIObject("Job", "a", "j2", <<OwnerRef("CronJob", "batch/v1beta1", "c")>>),
       APIObject("Job", "a", "j3", <<OwnerRef("Workflow", "batch/v1", "c")>>),
       APIObject("Job", "b", "j4", <<OwnerRef("CronJob", "batch/v1", "c")>>),
       APIObject("Job", "a", "j5", <<OwnerRef("Workflow", "batch/v1", "w"),
                                     OwnerRef("CronJob", "batch/v1", "c")>>) >>

JobClusters ==
    {SelectSeq(JobUniverse, LAMBDA e : e \in held) : held \in SUBSET Range(JobUniverse)}

InitCronJob ==
    /\ OutsideClusterIdle
    /\ InitRegistries
    /\ api \in JobClusters
    /\ cache = <<>>
    /\ listed = <<>>
    /\ built = NotBuilt

\* k8s.get_all("Job", namespace) or k8s.get("Job", namespace, name), as a
\* scanner visited earlier does
AsksForJobs ==
    /\ built = NotBuilt
    /\ listed = <<>>
    /\ cache = <<>>
    /\ \E namespace \in Namespaces \cup {ALL}, name \in {"", "j1"} :
        LET r == IF name = "" THEN get_all(Facade, "Job", namespace)
                 ELSE get(Facade, "Job", namespace, name) IN
        /\ cache' = r.cache
        /\ listed' = r.listed
    /\ UNCHANGED <<api, built, instrumentors, heap, registered, outsideCluster>>

\* SensorCronJob(registry, k8s, cronjob).children()
CronJobChildren ==
    /\ built = NotBuilt
    /\ \E registry \in Registries, namespace \in Namespaces, name \in {"c", "w"} :
        LET cronjob == CronJob(namespace, name)
            r == SensorCronJobChildren(World, Facade, registry, cronjob)
        IN  /\ built' = [op |-> "cronjob.children", registry |-> registry,
                         cronjob |-> cronjob, outcome |-> r.outcome, exc |-> r.exc,
                         scanners |-> r.value]
            /\ cache' = r.cache
            /\ listed' = r.listed
    /\ UNCHANGED <<api, instrumentors, heap, registered, outsideCluster>>

NextCronJob ==
    \/ AsksForJobs
    \/ CronJobChildren

SpecCronJob == InitCronJob /\ [][NextCronJob]_vars

(***************************************************************************)
(* Claims about SensorCronJob                                              *)
(***************************************************************************)
\* The jobs of the CronJob's namespace with an owner reference to it
OwnedJobs ==
    SelectSeq(api, LAMBDA e :
        /\ e.kind = "Job"
        /\ e.namespace = built.cronjob.namespace
        /\ \E i \in 1..Len(e.ownerReferences) :
            /\ e.ownerReferences[i].kind = "CronJob"
            /\ e.ownerReferences[i].apiVersion = built.cronjob.version
            /\ e.ownerReferences[i].name = built.cronjob.name)

\* C26: the only child of a CronJob is an AllOf named "jobs" over the Job
\* scanners of exactly the jobs of its namespace that have an owner reference
\* with its kind, apiVersion and name
C26_OwnedJobs ==
    (/\ built.op = "cronjob.children"
     /\ built.registry = "r1")
    => /\ built.outcome = "return"
       /\ Len(built.scanners) = 1
       /\ built.scanners[1].type = "SystemAll"
       /\ built.scanners[1].name = "jobs"
       /\ built.scanners[1].scanners =
            [i \in 1..Len(OwnedJobs) |->
                SensorKubernetes("SensorJob", built.registry, [job |-> OwnedJobs[i]])]

\* of the five jobs, two are the CronJob's: one whose only owner it is and
\* one that has it as second owner; the facade had listed every namespace
C26_Witness ==
    /\ built.op = "cronjob.children"
    /\ built.registry = "r1"
    /\ api = JobUniverse
    /\ listed = <<<<"Job", ALL>>>>
    /\ built.cronjob = CronJob("a", "c")
    /\ Len(built.scanners[1].scanners) = 2
    /\ built.scanners[1].scanners[1].obj.job.name = "j1"
    /\ built.scanners[1].scanners[2].obj.job.name = "j5"

(***************************************************************************)
(* instrumentors/k8s.py: replica_statuses and SensorReplicaSets            *)
(***************************************************************************)
\* status.get(kind): <<n>> for the number n, <<>> for None
StatusGet(status_, kind) == status_[kind]

\* replica_statuses passing a field that is at least the target
ReplicaStatusesAtLeast(target, kinds, status_) ==
    SystemAll("replicas",
        [i \in 1..Len(kinds) |->
            SensorConstant(kinds[i],
                Status(from_bool(/\ StatusGet(status_, kinds[i]) # <<>>
                                 /\ StatusGet(status_, kinds[i])[1] >= target), <<>>))])

\* replica_statuses(target, kinds, status); `kinds` is a Python set, given
\* here in the order in which the comprehension happens to iterate over it
replica_statuses(target, kinds, status_) ==
    SystemAll("replicas",
        [i \in 1..Len(kinds) |->
            SensorConstant(kinds[i],
                Status(from_bool(StatusGet(status_, kinds[i]) = <<target>>), <<>>))])

\* A ReplicaSet: spec.replicas, spec.selector.matchLabels and status
ReplicaSet(namespace, name, replicas, matchLabels, status_) ==
    [kind |-> "ReplicaSet", namespace |-> namespace, name |-> name,
     ownerReferences |-> <<>>, replicas |-> replicas, matchLabels |-> matchLabels,
     status |-> status_]

\* The orders in which a set may be iterated over
Orders(S) == {s \in SeqsUpTo(S, Cardinality(S)) : Len(s) = Cardinality(S) /\ Range(s) = S}

ReplicaFields == {"replicas", "availableReplicas", "readyReplicas"}

\* SensorReplicaSets(registry, k8s, replicaset).children(), the set of
\* fields being iterated over in the given order
SensorReplicaSetsChildren(w, k, registry, replicaset, order) ==
    IF replicaset.replicas # 0
    THEN LET count_sensors == replica_statuses(replicaset.replicas, order, replicaset.status)
             pods == k8s_children(k, "Pod", replicaset.namespace, replicaset.matchLabels)
             each == FlattenInstrumented(w, registry, k8skind("Pod"),
                        [i \in 1..Len(pods) |-> [pod |-> pods[i]]])
         IN  IF each.outcome = "raise" THEN Reply("raise", each.exc, <<>>, k)
             ELSE Reply("return", NoException,
                        <<count_sensors, SystemAll("pods", each.scanners)>>, k)
    ELSE Reply("return", NoException,
               <<replica_statuses(replicaset.replicas, <<"replicas">>, replicaset.status),
                 SensorConstant("pods",
                    Status(PASSING, <<Log("replicaset requests no pods", "INFO")>>))>>, k)

(***************************************************************************)
(* SpecReplicaSet: the children of one ReplicaSet are asked for            *)
(***************************************************************************)
ReplicaCounts == 0..2

ReplicaStatuses == [ReplicaFields -> {<<>>} \cup {<<n>> : n \in ReplicaCounts}]

InitReplicaSet ==
    /\ OutsideClusterIdle
    /\ InitRegistries
    /\ api \in PodClusters
    /\ cache = <<>>
    /\ listed = <<>>
    /\ built = NotBuilt

\* SensorReplicaSets(registry, k8s, replicaset).children()
ReplicaSetsChildren ==
    /\ built = NotBuilt
    /\ \E registry \in Registries, replicas \in ReplicaCounts,
          matchLabels \in {{}, {"app=web"}}, status_ \in ReplicaStatuses,
          order \in Orders(ReplicaFields) :
        LET replicaset == ReplicaSet("a", "rs", replicas, matchLabels, status_)
            r == SensorReplicaSetsChildren(World, Facade, registry, replicaset, order)
        IN  /\ built' = [op |-> "replicaset.children", registry |-> registry,
                         replicaset |-> replicaset, outcome |-> r.outcome, exc |-> r.exc,
                         scanners |-> r.value]
            /\ cache' = r.cache
            /\ listed' = r.listed
    /\ UNCHANGED <<api, instrumentors, heap, registered, outsideCluster>>

NextReplicaSet == ReplicaSetsChildren

SpecReplicaSet == InitReplicaSet /\ [][NextReplicaSet]_vars

(***************************************************************************)
(* Claims about SensorReplicaSets                                          *)
(***************************************************************************)
\* The pods of the ReplicaSet's namespace that bear its matchLabels
Matching ==
    SelectSeq(api, LAMBDA e : /\ e.kind = "Pod"
                              /\ e.namespace = built.replicaset.namespace
                              /\ built.replicaset.matchLabels \subseteq e.labels)

\* The system has one sensor for each of the fields and no other, each
\* PASSING when the status has the field equal to spec.replicas and FAILING
\* when it differs or is absent
CountsAre(system, fields) ==
    /\ system.type = "SystemAll"
    /\ system.name = "replicas"
    /\ Len(system.scanners) = Cardinality(fields)
    /\ \A field \in fields :
        \E i \in 1..Len(system.scanners) :
            /\ system.scanners[i].type = "SensorConstant"
            /\ system.scanners[i].name = field
            /\ system.scanners[i].val.state =
                (IF built.replicaset.status[field] = <<built.replicaset.replicas>>
                 THEN PASSING ELSE FAILING)

BoundComposites(r) ==
    {instrumentors[r][i].instrumentor : i \in 1..Len(instrumentors[r])}
        \cap {Address(j) : j \in 1..Len(heap)}

\* C28: after any interleaving of register, register_many and extend, no
\* Composite bound in a registry has a Composite in its instrumentor list
C28_NoCompositeInsideComposite ==
    \A r \in Registries : \A c \in BoundComposites(r) :
        \A i \in 1..Len(CompositeAt(heap, c).instrumentors) :
            ~IsComposite(CompositeAt(heap, c).instrumentors[i])

\* The Composites there were before the last call are as they were
CompositesKept ==
    /\ Len(heap) >= Len(last.heapBefore)
    /\ \A j \in 1..Len(last.heapBefore) : heap[j] = last.heapBefore[j]

\* C29: register, register_many and extend change the mapping of the
\* receiving registry alone: every other registry keeps its mapping, every
\* Composite there was keeps its instrumentor list, and a kind that was bound
\* (to an instrumentor taken over from another registry, or to a Composite)
\* is bound afterwards to a Composite that did not exist before
C29_OnlyReceiverChanges ==
    last.op \in {"register", "register_many", "extend"} =>
        /\ \A r \in Registries \ {last.registry} : instrumentors[r] = last.before[r]
        /\ CompositesKept
        /\ \A k \in Keys(last.items) :
            DictGet(last.before[last.registry], k) # None =>
                /\ IsComposite(DictGet(instrumentors[last.registry], k))
                /\ DictGet(instrumentors[last.registry], k)
                     \notin {Address(j) : j \in 1..Len(last.heapBefore)}

\* r1 took the Composite of kind0 over from r0 and registers 3 for kind0:
\* r1 is bound to a new Composite, r0 keeps the one of <<1, 2>>
C29_Witness ==
    /\ last.op = "register"
    /\ last.registry = "r1"
    /\ last.kind = kind0
    /\ last.items = <<Item(kind0, 3)>>
    /\ IsComposite(DictGet(last.before["r1"], kind0))
    /\ DictGet(last.before["r1"], kind0) = DictGet(instrumentors["r0"], kind0)
    /\ CompositeAt(heap, DictGet(instrumentors["r0"], kind0)).instrumentors = <<1, 2>>
    /\ CompositeAt(heap, DictGet(instrumentors["r1"], kind0)).instrumentors = <<1, 2, 3>>

(***************************************************************************)
(* SpecReentrant: a registry is set up as console_prometheus.py does, a    *)
(* pod is instrumented through one of the registries and the children of   *)
(* the scanners obtained are asked for                                     *)
(***************************************************************************)
RunningPods ==
    { Pod("x", "a", "Running", <<>>, containerStatuses, volumes) :
        containerStatuses \in {ContainerStatuses(FALSE, <<>>), ContainerStatuses(TRUE, <<"c">>),
                               ContainerStatuses(TRUE, <<"c", "d">>)},
        volumes \in {<<>>, <<"v">>} }

\* scanner.children() of each scanner of the list that is a SensorPods: the
\* scanner resolves the sub-kinds against the registry it stores
ChildrenOfPods(w, list) ==
    [i \in 1..Len(list) |->
        IF list[i].type = "SensorPods"
        THEN SensorPodsChildren(w, list[i].registry, list[i].obj.pod)
        ELSE PodChildren("return", NoException, <<>>)]

\* registry.instrument(k8skind("Pod"), pod=pod)
InstrumentsPod ==
    /\ built = NotBuilt
    /\ \E self \in Registries, pod \in RunningPods :
        LET r == RegistryInstrument(World, self, k8skind("Pod"), [pod |-> pod], {}) IN
        built' = [op |-> "instrument", registry |-> self, pod |-> pod,
                  outcome |-> r.outcome, exc |-> r.exc, calls |-> r.calls,
                  scanners |-> r.scanners, children |-> <<>>]
    /\ UNCHANGED <<api, cache, listed, instrumentors, heap, registered, outsideCluster>>

\* children() of the scanners that instrument() returned
ScannersChildren ==
    /\ built.op = "instrument"
    /\ built.outcome = "return"
    /\ built' = [built EXCEPT !.op = "instrument.children",
                              !.children = ChildrenOfPods(World, built.scanners)]
    /\ UNCHANGED <<api, cache, listed, instrumentors, heap, registered, outsideCluster>>

NextReentrant ==
    \/ ExtendWithK8s
    \/ RegisterForK8sKind
    \/ InstrumentsPod
    \/ ScannersChildren

SpecReentrant == InitPod /\ [][NextReentrant]_vars

(***************************************************************************)
(* Claims about the registry that instrumentors and scanners are given     *)
(***************************************************************************)
\* The registries stored in a scanner and in the scanners below it (the
\* scanners built here are at most four systems deep)
RECURSIVE RegistriesIn(_, _)
RegistriesIn(scanner, depth) ==
    IF scanner.type \in {"SystemAll", "SystemAny"}
    THEN IF depth = 0 THEN {"deeper"}
         ELSE UNION {RegistriesIn(scanner.scanners[i], depth - 1) :
                        i \in 1..Len(scanner.scanners)}
    ELSE IF scanner.type = "SensorConstant" THEN {}
    ELSE {scanner.registry}

RegistriesOfAll(list) == UNION {RegistriesIn(list[i], Len(DefaultSensors)) : i \in 1..Len(list)}

\* C30: instrument() on a registry hands that registry to every instrumentor
\* it invokes, the constituents of a Composite included, and every scanner
\* they build stores it; the children of those scanners are what the
\* bindings of that registry give for the sub-kinds, and store it too
C30_CallingRegistryHandedOn ==
    /\ (built.op \in {"instrument", "instrument.children"} /\ built.outcome = "return") =>
        /\ Len(built.calls) >= 1
        /\ \A i \in 1..Len(built.calls) : built.calls[i].registry = built.registry
        /\ RegistriesOfAll(built.scanners) = {built.registry}
    /\ built.op = "instrument.children" =>
        \A i \in 1..Len(built.children) :
            /\ built.children[i] = SensorPodsChildren(World, built.registry, built.pod)
            /\ RegistriesOfAll(built.children[i].scanners) \subseteq {built.registry}

\* r0 was extended with the Kubernetes registry r1 and had the instrumentor 1
\* registered for Pod#container; a pod instrumented through r0 has for each
\* container the Kubernetes sensor and the scanner of 1, both holding r0
C30_Witness ==
    /\ built.op = "instrument.children"
    /\ built.registry = "r0"
    /\ built.pod.containerStatuses = ContainerStatuses(TRUE, <<"c", "d">>)
    /\ built.pod.volumes = <<"v">>
    /\ IsComposite(DictGet(instrumentors["r0"], k8skind("Pod#container")))
    /\ DictGet(instrumentors["r1"], k8skind("Pod#container")) < None
    /\ Len(built.children) = 1
    /\ built.children[1].outcome = "return"
    /\ \E i \in 1..Len(built.children[1].scanners) :
        LET containers == built.children[1].scanners[i] IN
        /\ containers.name = "containers"
        /\ Len(containers.scanners) = 2
        /\ containers.scanners[1].type = "SystemAll"
        /\ Len(containers.scanners[1].scanners) = 2
        /\ containers.scanners[1].scanners[1].type = "SensorPods.Container"
        /\ containers.scanners[1].scanners[1].registry = "r0"
        /\ containers.scanners[1].scanners[2].type = "Sensor"
        /\ containers.scanners[1].scanners[2].by = 1
        /\ containers.scanners[1].scanners[2].registry = "r0"

====
